---- MODULE Spec2Model ----
(***************************************************************************)
(* Query planning and virtual-register write path of wb-mqtt-serial.       *)
(*                                                                         *)
(* SpecMerge models TIRDeviceQueryFactory::GenerateQueries (CheckSets,     *)
(* MergeSets and the per-type limits) over a device-wide set of memory     *)
(* blocks.  SpecVReg models TVirtualRegister::SetTextValue on a producer   *)
(* thread and TVirtualRegister::Flush on the bus thread, one shared-memory *)
(* access per step.                                                        *)
(*                                                                         *)
(* The model follows release-build semantics: assert() is compiled out,    *)
(* and unsigned 32-bit arithmetic wraps.                                  *)
(***************************************************************************)
EXTENDS Integers, Sequences, FiniteSets

(***************************************************************************)
(* Bounds of the model.                                                    *)
(***************************************************************************)
\* highest address of a memory block of the register type
MaxAddr == 2
\* largest number of entries of the list handed to GenerateQueries
MaxSets == 3
\* largest number of entries of a list of arbitrary block sets
MaxCheckSets == 2
\* largest number of memory blocks of an arbitrary block set
MaxSetSize == 2
\* largest value a text handed to SetTextValue may denote
MaxValue == 2
\* largest configured max_reg_hole / max_bit_hole
MaxHoleCfg == 1
\* the protocol's maximum of registers (and bits) per read or write
ProtoMaxRegs == 3
\* the device's configured max_read_registers (when it is set)
DevMaxRead == 2
\* registers created on one device
MaxVRegs == 2
\* highest address a register's configuration may name
MaxCfgAddr == 1
\* registers in one input vector of GenerateQuerySets
MaxPollRegs == 4
\* registers of a run of consecutive addresses
MaxRunRegs == 6
\* calls of AssignCache on the blocks of one device
MaxAssigns == 2

\* Unsigned integers of the code are held as 16-bit words, least significant
\* first: two words for uint32_t, four for uint64_t
WordBits == 16
WordRange == 2^WordBits
WordsIn64 == 4

\* conversion to uint32_t of an int (or of the difference of two addresses):
\* the value modulo 2^32, so -1 is << 65535, 65535 >> = 4294967295
ToU32(x) == << x % WordRange, (x \div WordRange) % WordRange >>

\* the comparisons of two uint32_t
U32Less(a, b) == a[2] < b[2] \/ (a[2] = b[2] /\ a[1] < b[1])
U32LessEq(a, b) == ~U32Less(b, a)

\* std::max and std::min of two uint32_t
U32Max(a, b) == IF U32Less(a, b) THEN b ELSE a
U32Min(a, b) == IF U32Less(b, a) THEN b ELSE a

(***************************************************************************)
(* Memory block types and memory blocks.                                   *)
(***************************************************************************)
\* type 0: 16-bit registers of fixed size; type 1: variadic-size blocks
RegType == [Index |-> 0, Size |-> 2, Variadic |-> FALSE]
VarType == [Index |-> 1, Size |-> 1, Variadic |-> TRUE]
MemoryBlockTypes == {RegType, VarType}

\* TMemoryBlock::TMemoryBlock(address, size, type)
MemoryBlock(address, size, type) ==
    [Address |-> address,
     Type    |-> type.Index,
     Size    |-> IF type.Variadic THEN size ELSE type.Size]

\* TMemoryBlock::operator<
BlockLess(a, b) ==
    a.Type < b.Type \/ (a.Type = b.Type /\ a.Address < b.Address)

\* the blocks a device of the model may hold: the register type at every
\* address, and two blocks of the variadic type that differ in size
RegBlocks == {MemoryBlock(a, 2, RegType) : a \in 0..MaxAddr}
VarBlocks == {MemoryBlock(0, 2, VarType), MemoryBlock(1, 1, VarType)}
AllBlocks == RegBlocks \cup VarBlocks

\* *set.begin() and *set.rbegin() of a TPSet<PMemoryBlock>
SetBegin(s) == CHOOSE b \in s : \A c \in s : c = b \/ BlockLess(b, c)
SetRBegin(s) == CHOOSE b \in s : \A c \in s : c = b \/ BlockLess(c, b)

\* the blocks of a set in iteration order
RECURSIVE InOrder(_)
InOrder(s) ==
    IF s = {} THEN << >>
    ELSE LET b == SetBegin(s) IN << b >> \o InOrder(s \ {b})

(***************************************************************************)
(* State.                                                                  *)
(***************************************************************************)
VARIABLES
    \* --- query factory ---
    deviceBlocks,     \* every memory block created on the device
    deviceConfig,     \* device_config: MaxBitHole, MaxRegHole, MaxReadRegisters
    protocolInfo,     \* protocol maxima and the single-bit types
    input,            \* the list as handed to GenerateQueries
    operation,        \* "Read" or "Write"
    policy,           \* "Minify" or "NoDuplicates"
    memoryBlockSets,  \* the list as MergeSets leaves it
    result,           \* the queries returned
    pc,               \* "start", "done", or "error" (TSerialDeviceException)
    \* --- virtual register ---
    ReadOnly,            \* TRegisterConfig::ReadOnly
    OnValue,             \* TRegisterConfig::OnValue (empty: no boolean mapping)
    FlushNeeded,         \* "null" (no semaphore), "idle" or "signalled"
    Dirty,               \* atomic flag
    ValueToWrite,        \* value held by the ValueToWrite formatter (-1: nullptr)
    CurrentValue,        \* value held by the CurrentValue formatter
    Holders,             \* what assigning a formatter holder copies, and whether
                         \* the two members hold one formatter (HolderBuilds)
    WriteQuery,          \* the register's write query: Status and loaded Value
    ErrorState,          \* set of error flags, or the sentinel UnknownErrorState
    ChangedPublishData,  \* set of publish flags
    \* --- threads ---
    producerPc,          \* position of the producer thread in SetTextValue
    value,               \* the argument of the running SetTextValue call
    busPc,               \* position of the bus thread in Flush
    \* --- history ---
    dirtyBy,             \* argument of the call that last stored Dirty = true
    executed,            \* the value last handed to the device by Execute (-1: none)
    flushExecutes,       \* Execute calls of the running or last Flush
    \* --- virtual register: polling ---
    Poll,                \* TRegisterConfig::Poll
    HasErrorValue,       \* TRegisterConfig::HasErrorValue
    ErrorValue,          \* TRegisterConfig::ErrorValue
    ValueIsRead,         \* a value was delivered in the running cycle
    ValueWasAccepted,    \* AcceptDeviceValue has passed its guard once
    pollOp,              \* history: the last read-side operation and its argument
    valueAccepted,       \* history: a delivered value was taken as a normal value
    \* --- memory blocks and the registers created on them ---
    TypeReadOnly,        \* TMemoryBlockType::ReadOnly of the blocks' type
    ExternalLinkage,     \* per block address: the linkage and its VirtualRegisters
    Cache,               \* per block address: the cache image (-1: nullptr)
    registers,           \* the virtual registers created so far, in creation order
    lastCreate,          \* history: the outcome of the last TVirtualRegister::Create
    lastBlockOp,         \* history: the last call made on a block after set-up
    \* --- query sets by poll interval ---
    virtualRegisters,        \* the input vector: each register's PollInterval
    querySetsByPollInterval, \* the pairs returned
    querySetsPc,             \* "start" or "done"
    \* --- per-type limits ---
    typeInfo,            \* the pair getMaxHoleAndRegs returned, and for which type
    \* --- value conversion ---
    Format,              \* TRegisterConfig::Format
    rawValue,            \* the uint64_t handed to ConvertSlaveValue, as words
    textValue,           \* the text ConvertSlaveValue returned
    masterValue,         \* the uint64_t ConvertMasterValue returned, as words
    formatPc             \* "start", "text" or "done"

mergeVars == << deviceBlocks, deviceConfig, protocolInfo, input, operation,
                policy, memoryBlockSets, result, pc >>

vregVars == << ReadOnly, OnValue, FlushNeeded, Dirty, ValueToWrite, CurrentValue,
               Holders, WriteQuery, ErrorState, ChangedPublishData, producerPc, value,
               busPc, dirtyBy, executed, flushExecutes >>

pollVars == << Poll, HasErrorValue, ErrorValue, ValueIsRead, ValueWasAccepted,
               pollOp, valueAccepted >>

createVars == << TypeReadOnly, ExternalLinkage, Cache, registers, lastCreate,
                 lastBlockOp >>

querySetVars == << virtualRegisters, querySetsByPollInterval, querySetsPc >>

limitVars == << typeInfo >>

formatVars == << Format, rawValue, textValue, masterValue, formatPc >>

\* what the query factory leaves alone
outsideMerge == << vregVars, pollVars, createVars, querySetVars, limitVars,
                  formatVars >>

\* what SetTextValue and Flush leave alone
outsideVReg == << mergeVars, pollVars, createVars, querySetVars, limitVars,
                 formatVars >>

\* what the read side of a register leaves alone
outsideRead == << mergeVars, createVars, querySetVars, limitVars, formatVars >>

\* what TVirtualRegister::Create leaves alone
outsideCreate == << mergeVars, vregVars, pollVars, querySetVars, limitVars,
                   formatVars >>

\* what GenerateQuerySets leaves alone
outsideQuerySets == << mergeVars, vregVars, pollVars, createVars, limitVars,
                      formatVars >>

\* what getMaxHoleAndRegs leaves alone
outsideLimits == << vregVars, pollVars, createVars, querySetVars, formatVars >>

\* what ConvertSlaveValue and ConvertMasterValue leave alone
outsideFormat == << mergeVars, vregVars, pollVars, createVars, querySetVars,
                    limitVars >>

vars == << mergeVars, vregVars, pollVars, createVars, querySetVars, limitVars,
          formatVars >>

(***************************************************************************)
(* Utilities of ir_device_query_factory.cpp.                               *)
(***************************************************************************)
Max(a, b) == IF a >= b THEN a ELSE b
Min(a, b) == IF a <= b THEN a ELSE b

\* TSerialDevice::StaticCreateMemoryBlockRange(first, last): the view over
\* the device-wide ordered container from first to last, both included
CreateMemoryBlockRange(first, last) ==
    InOrder({b \in deviceBlocks : ~BlockLess(b, first) /\ ~BlockLess(last, b)})

\* the loop of GetMaxHoleSize over the view, from element k on
RECURSIVE HoleLoop(_, _, _, _)
HoleLoop(view, k, prev, hole) ==
    IF k > Len(view) THEN hole
    ELSE LET mb == view[k]
             h  == IF prev >= 0
                   THEN U32Max(hole, ToU32((mb.Address - prev) - 1))
                   ELSE hole
         IN HoleLoop(view, k + 1, mb.Address, h)

\* GetMaxHoleSize(first, last)
GetMaxHoleSize(first, last) ==
    HoleLoop(CreateMemoryBlockRange(first, last), 1, -1, ToU32(0))

\* GetMaxHoleSize(memoryBlockSet)
GetMaxHoleSizeOfSet(memoryBlockSet) ==
    GetMaxHoleSize(SetBegin(memoryBlockSet), SetRBegin(memoryBlockSet))

\* GetRegCount(first, last)
GetRegCount(first, last) == ToU32(last.Address - first.Address + 1)

\* GetRegCount(memoryBlockSet)
GetRegCountOfSet(memoryBlockSet) ==
    GetRegCount(SetBegin(memoryBlockSet), SetRBegin(memoryBlockSet))

\* GetType(memoryBlockSet): the type (index) of the first block
GetType(memoryBlockSet) == SetBegin(memoryBlockSet).Type

\* GetSize(memoryBlockSet): the size of the first block
GetSize(memoryBlockSet) == SetBegin(memoryBlockSet).Size

IsReadOperation(op) == op = "Read"

(***************************************************************************)
(* Per-type limits: the lambda getMaxHoleAndRegs of GenerateQueries.       *)
(***************************************************************************)
IsSingleBitType(type) == type \in protocolInfo.SingleBitTypes

\* getMaxHoleAndRegs that caps writes by max_read_registers as it caps reads
getMaxHoleAndRegs_WriteCapped(type) ==
    LET singleBitType == IsSingleBitType(type)
        maxHole == IF policy = "Minify"
                   THEN (IF singleBitType THEN deviceConfig.MaxBitHole
                                          ELSE deviceConfig.MaxRegHole)
                   ELSE 0
        protocolMaximum ==
            IF IsReadOperation(operation)
            THEN (IF singleBitType THEN protocolInfo.MaxReadBits
                                   ELSE protocolInfo.MaxReadRegisters)
            ELSE (IF singleBitType THEN protocolInfo.MaxWriteBits
                                   ELSE protocolInfo.MaxWriteRegisters)
        maxRegs == IF deviceConfig.MaxReadRegisters > 0
                   THEN U32Min(ToU32(deviceConfig.MaxReadRegisters),
                               ToU32(protocolMaximum))
                   ELSE ToU32(protocolMaximum)
    IN [maxHole |-> ToU32(maxHole), maxRegs |-> maxRegs]

getMaxHoleAndRegs(type) ==
    LET singleBitType == IsSingleBitType(type)
        enableHoles   == policy = "Minify"
        maxHole == IF enableHoles
                   THEN (IF singleBitType THEN deviceConfig.MaxBitHole
                                          ELSE deviceConfig.MaxRegHole)
                   ELSE 0
        protocolMaximum == IF singleBitType THEN protocolInfo.MaxReadBits
                                            ELSE protocolInfo.MaxReadRegisters
        maxRegs == IF IsReadOperation(operation)
                   THEN (IF deviceConfig.MaxReadRegisters > 0
                         THEN U32Min(ToU32(deviceConfig.MaxReadRegisters),
                                     ToU32(protocolMaximum))
                         ELSE ToU32(protocolMaximum))
                   ELSE (IF singleBitType THEN ToU32(protocolInfo.MaxWriteBits)
                                          ELSE ToU32(protocolInfo.MaxWriteRegisters))
    IN [maxHole |-> ToU32(maxHole), maxRegs |-> maxRegs]

\* one call of the lambda, as CheckSets and the merge condition make it
CallGetMaxHoleAndRegs(type) ==
    /\ typeInfo.type = -1
    /\ typeInfo' = [type    |-> type,
                    maxHole |-> getMaxHoleAndRegs(type).maxHole,
                    maxRegs |-> getMaxHoleAndRegs(type).maxRegs]
    /\ UNCHANGED mergeVars
    /\ UNCHANGED outsideLimits

(***************************************************************************)
(* CheckSets: the pre-check of every entry, in list order.                 *)
(***************************************************************************)
\* CheckSet that forgets the check of the block sizes
CheckSet_NoSizeCheck(memoryBlockSet) ==
    LET ti        == getMaxHoleAndRegs(GetType(memoryBlockSet))
        typeIndex == GetType(memoryBlockSet)
    IN  IF U32Less(ti.maxHole, GetMaxHoleSizeOfSet(memoryBlockSet))
        THEN "max hole count exceeded"
        ELSE IF U32Less(ti.maxRegs, GetRegCountOfSet(memoryBlockSet))
        THEN "max mb count exceeded"
        ELSE IF \A mb \in memoryBlockSet : mb.Type = typeIndex THEN "ok"
        ELSE "different memory block types in same set"

\* the body of the loop for one entry: "ok", or the exception it throws
CheckSet(memoryBlockSet) ==
    LET ti        == getMaxHoleAndRegs(GetType(memoryBlockSet))
        hole      == GetMaxHoleSizeOfSet(memoryBlockSet)
        regCount  == GetRegCountOfSet(memoryBlockSet)
        typeIndex == GetType(memoryBlockSet)
        size      == GetSize(memoryBlockSet)
        blocks    == InOrder(memoryBlockSet)
        bad       == SelectSeq(blocks, LAMBDA mb : mb.Type # typeIndex \/ mb.Size # size)
    IN  IF U32Less(ti.maxHole, hole) THEN "max hole count exceeded"
        ELSE IF U32Less(ti.maxRegs, regCount) THEN "max mb count exceeded"
        ELSE IF bad = << >> THEN "ok"
        ELSE IF bad[1].Type # typeIndex THEN "different memory block types in same set"
        ELSE "different memory block sizes in same set"

\* CheckSets(memoryBlockSets, typeInfo): "ok", or the first exception thrown
RECURSIVE CheckSetsFrom(_, _)
CheckSetsFrom(sets, k) ==
    IF k > Len(sets) THEN "ok"
    ELSE LET r == CheckSet(sets[k].first)
         IN IF r # "ok" THEN r ELSE CheckSetsFrom(sets, k + 1)

CheckSets(sets) == CheckSetsFrom(sets, 1)

(***************************************************************************)
(* MergeSets.                                                              *)
(***************************************************************************)
\* the hull of two sets
HullFirst(a, b) == IF BlockLess(SetBegin(a), SetBegin(b)) THEN SetBegin(a) ELSE SetBegin(b)
HullLast(a, b) == IF BlockLess(SetRBegin(b), SetRBegin(a)) THEN SetRBegin(a) ELSE SetRBegin(b)

\* mergeCondition that forgets the limit of the block count
mergeCondition_NoRegLimit(a, b) ==
    /\ GetType(a) = GetType(b)
    /\ GetSize(a) = GetSize(b)
    /\ U32LessEq(GetMaxHoleSize(HullFirst(a, b), HullLast(a, b)),
                 getMaxHoleAndRegs(GetType(a)).maxHole)

\* mergeCondition that forgets the limit of the hole
mergeCondition_NoHoleLimit(a, b) ==
    /\ GetType(a) = GetType(b)
    /\ GetSize(a) = GetSize(b)
    /\ U32LessEq(ToU32(HullLast(a, b).Address - HullFirst(a, b).Address + 1),
                 getMaxHoleAndRegs(GetType(a)).maxRegs)

\* mergeCondition that stops one block short of the limit of the block count
mergeCondition_BelowRegLimit(a, b) ==
    /\ GetType(a) = GetType(b)
    /\ GetSize(a) = GetSize(b)
    /\ U32LessEq(GetMaxHoleSize(HullFirst(a, b), HullLast(a, b)),
                 getMaxHoleAndRegs(GetType(a)).maxHole)
    /\ U32Less(ToU32(HullLast(a, b).Address - HullFirst(a, b).Address + 1),
               getMaxHoleAndRegs(GetType(a)).maxRegs)

\* the lambda mergeCondition (policy Minify)
mergeCondition(a, b) ==
    IF GetType(a) # GetType(b) THEN FALSE
    ELSE LET first == HullFirst(a, b)
             last  == HullLast(a, b)
             ti    == getMaxHoleAndRegs(GetType(a))
             holeAfterMerge == GetMaxHoleSize(first, last)
             regsAfterMerge == ToU32(last.Address - first.Address + 1)
         IN  /\ GetSize(a) = GetSize(b)
             /\ U32LessEq(holeAfterMerge, ti.maxHole)
             /\ U32LessEq(regsAfterMerge, ti.maxRegs)

\* noDuplicatesCondition that compares the first blocks only
noDuplicatesCondition_FirstBlock(a, b) == SetBegin(a) = SetBegin(b)

\* noDuplicatesCondition that accepts a set contained in the other
noDuplicatesCondition_Subset(a, b) == b \subseteq a

\* the lambda noDuplicatesCondition (policy NoDuplicates)
noDuplicatesCondition(a, b) == a = b

condition(a, b) ==
    IF policy = "NoDuplicates" THEN noDuplicatesCondition(a, b)
    ELSE mergeCondition(a, b)

\* list.erase(position k)
Erase(list, k) == SubSeq(list, 1, k - 1) \o SubSeq(list, k + 1, Len(list))

\* MergeInto that merges the blocks and forgets the virtual registers
MergeInto_DropRegisters(sets, i, j) ==
    Erase([sets EXCEPT ![i] = [first  |-> sets[i].first \cup sets[j].first,
                               second |-> sets[i].second]],
          j)

\* the body of the inner loop when the condition holds: entry j is merged
\* into entry i and erased
MergeInto(sets, i, j) ==
    Erase([sets EXCEPT ![i] = [first  |-> sets[i].first \cup sets[j].first,
                               second |-> sets[i].second \o sets[j].second]],
          j)

\* the inner loop leaving at the first entry that does not merge
RECURSIVE InnerLoop_Break(_, _, _)
InnerLoop_Break(sets, i, j) ==
    IF j > Len(sets) THEN sets
    ELSE IF ~condition(sets[i].first, sets[j].first) THEN sets
    ELSE InnerLoop_Break(MergeInto(sets, i, j), i, j)

\* the inner loop: itOtherMemoryBlockSet from position j to the end
RECURSIVE InnerLoop(_, _, _)
InnerLoop(sets, i, j) ==
    IF j > Len(sets) THEN sets
    ELSE IF ~condition(sets[i].first, sets[j].first) THEN InnerLoop(sets, i, j + 1)
    ELSE InnerLoop(MergeInto(sets, i, j), i, j)

\* the outer loop: itMemoryBlockSet from position i to the end
RECURSIVE OuterLoop(_, _)
OuterLoop(sets, i) ==
    IF i > Len(sets) THEN sets
    ELSE OuterLoop(InnerLoop(sets, i, i + 1), i + 1)

\* MergeSets after CheckSets has passed
MergeSets(sets) == OuterLoop(sets, 1)

(***************************************************************************)
(* GenerateQueries.                                                        *)
(***************************************************************************)
\* TIRDeviceQueryFactory::CreateQuery<Query>(memoryBlocks)
CreateQuery(entry) ==
    [Operation        |-> operation,
     Blocks           |-> entry.first,
     VirtualRegisters |-> entry.second,
     Type             |-> GetType(entry.first),
     Start            |-> SetBegin(entry.first).Address,
     Count            |-> GetRegCountOfSet(entry.first),
     Status           |-> "NotExecuted"]

\* GenerateQueries(virtualRegisters, ...): one entry per register, carrying
\* the register's blocks and the register itself
GroupedMemoryBlocks(blockSets) ==
    [k \in 1..Len(blockSets) |-> [first |-> blockSets[k], second |-> << k >>]]

\* GenerateQueries returns: the pre-check passes, the sets are merged and
\* one query is added per surviving set
GenerateQueriesReturns ==
    /\ pc = "start"
    /\ CheckSets(input) = "ok"
    /\ memoryBlockSets' = MergeSets(input)
    /\ result' = [k \in 1..Len(memoryBlockSets') |-> CreateQuery(memoryBlockSets'[k])]
    /\ pc' = "done"
    /\ UNCHANGED << deviceBlocks, deviceConfig, protocolInfo, input, operation, policy >>
    /\ UNCHANGED outsideMerge

\* GenerateQueries throws: CheckSets rejects the list before any merging
GenerateQueriesThrows ==
    /\ pc = "start"
    /\ CheckSets(input) # "ok"
    /\ pc' = "error"
    /\ UNCHANGED << deviceBlocks, deviceConfig, protocolInfo, input, operation,
                    policy, memoryBlockSets, result >>
    /\ UNCHANGED outsideMerge

(***************************************************************************)
(* Virtual register: texts and their decoding.                             *)
(***************************************************************************)
\* a text is a sequence of characters
Digits == << "0", "1", "2", "3", "4", "5", "6", "7", "8", "9" >>
IsDigit(ch) == \E k \in 1..Len(Digits) : Digits[k] = ch
DigitValue(ch) == (CHOOSE k \in 1..Len(Digits) : Digits[k] = ch) - 1

\* std::to_string of a number below ten
ToText(n) == << Digits[n + 1] >>

\* the text SetTextValue hands to the formatter
MappedText(str) ==
    IF OnValue = << >> THEN str
    ELSE IF str = << "1" >> THEN OnValue ELSE << "0" >>

\* the texts a producer may send
Texts == {ToText(n) : n \in 0..MaxValue} \cup {<< "x" >>}

(***************************************************************************)
(* ConvertSlaveValue and ConvertMasterValue for the integer formats, with  *)
(* scale 1, offset 0 and round_to 0.  A uint64_t is four 16-bit words, the *)
(* least significant first; an int64_t is its two's complement.            *)
(***************************************************************************)

UnsignedFormats == {"U8", "U16", "U24", "U32", "U64"}
SignedFormats == {"S8", "S16", "S24", "S32", "S64"}
IntegerFormats == UnsignedFormats \cup SignedFormats

\* the width of a format in bits
FormatWidth(format) ==
    CASE format \in {"U8", "S8"}   -> 8
      [] format \in {"U16", "S16"} -> 16
      [] format \in {"U24", "S24"} -> 24
      [] format \in {"U32", "S32"} -> 32
      [] format \in {"U64", "S64"} -> 64

Zero64 == [k \in 1..WordsIn64 |-> 0]

\* v & (2^bits - 1)
AndMask(v, bits) ==
    [k \in 1..WordsIn64 |->
        IF k * WordBits <= bits THEN v[k]
        ELSE IF (k - 1) * WordBits >= bits THEN 0
        ELSE v[k] % 2^(bits - (k - 1) * WordBits)]

\* v | ~(2^bits - 1)
OrOnesFrom(v, bits) ==
    [k \in 1..WordsIn64 |->
        IF k * WordBits <= bits THEN v[k]
        ELSE IF (k - 1) * WordBits >= bits THEN WordRange - 1
        ELSE (v[k] % 2^(bits - (k - 1) * WordBits))
                + (WordRange - 2^(bits - (k - 1) * WordBits))]

\* bit b of v, counted from the least significant
BitSet(v, b) == (v[(b \div WordBits) + 1] \div 2^(b % WordBits)) % 2 = 1

\* the conversion of the low bits of v to a signed type of that width, and
\* from there to int64_t
SignExtend(v, bits) ==
    IF BitSet(v, bits - 1) THEN OrOnesFrom(v, bits) ELSE AndMask(v, bits)

\* v + 1 from word k on, modulo 2^64
RECURSIVE Increment(_, _)
Increment(v, k) ==
    IF k > WordsIn64 THEN v
    ELSE IF v[k] + 1 < WordRange THEN [v EXCEPT ![k] = v[k] + 1]
    ELSE Increment([v EXCEPT ![k] = 0], k + 1)

\* -v modulo 2^64
Negate(v) == Increment([k \in 1..WordsIn64 |-> (WordRange - 1) - v[k]], 1)

\* v / 10 and v % 10, from word k down, with the remainder of the words above
RECURSIVE DivMod10(_, _, _)
DivMod10(v, k, rem) ==
    IF k = 0 THEN [quot |-> v, rem |-> rem]
    ELSE LET cur == rem * WordRange + v[k]
         IN DivMod10([v EXCEPT ![k] = cur \div 10], k - 1, cur % 10)

\* the decimal digits of an unsigned value, without leading zeros
RECURSIVE DecimalDigits(_)
DecimalDigits(v) ==
    IF v = Zero64 THEN << >>
    ELSE LET d == DivMod10(v, WordsIn64, 0)
         IN Append(DecimalDigits(d.quot), Digits[d.rem + 1])

\* std::to_string of an unsigned value
ToStringUnsigned(v) == IF v = Zero64 THEN << "0" >> ELSE DecimalDigits(v)

\* std::to_string of a signed value
ToStringSigned(v) ==
    IF BitSet(v, WordsIn64 * WordBits - 1)
    THEN << "-" >> \o ToStringUnsigned(Negate(v))
    ELSE ToStringUnsigned(v)

\* ConvertSlaveValue that takes the sign of S24 from bit 31
ConvertSlaveValueOf_S24Unsigned(format, val) ==
    CASE format = "S24" -> ToStringSigned(SignExtend(AndMask(val, 24), 32))
      [] format \in SignedFormats \ {"S24"} ->
            ToStringSigned(SignExtend(val, FormatWidth(format)))
      [] OTHER -> ToStringUnsigned(val)

\* ConvertSlaveValue(reg, value)
ConvertSlaveValueOf(format, val) ==
    CASE format = "S8"  -> ToStringSigned(SignExtend(AndMask(val, 8), 8))
      [] format = "S16" -> ToStringSigned(SignExtend(AndMask(val, 16), 16))
      [] format = "S24" ->
            LET v == AndMask(val, 24)
                fixed == IF BitSet(v, 23) THEN AndMask(OrOnesFrom(v, 24), 32) ELSE v
            IN ToStringSigned(SignExtend(fixed, 32))
      [] format = "S32" -> ToStringSigned(SignExtend(AndMask(val, 32), 32))
      [] format = "S64" -> ToStringSigned(val)
      [] OTHER          -> ToStringUnsigned(val)

\* v * 10 + digit, from word k up; the carry out of the last word
RECURSIVE MulAdd10(_, _, _)
MulAdd10(v, k, carry) ==
    IF k > WordsIn64 THEN [value |-> v, carry |-> carry]
    ELSE LET cur == v[k] * 10 + carry
         IN MulAdd10([v EXCEPT ![k] = cur % WordRange], k + 1, cur \div WordRange)

\* the value of the leading digits of str from position k on; overflow is
\* std::out_of_range
RECURSIVE ParseDigits(_, _, _)
ParseDigits(str, k, acc) ==
    IF k > Len(str) \/ ~IsDigit(str[k]) THEN [ok |-> TRUE, value |-> acc]
    ELSE LET next == MulAdd10(acc, 1, DigitValue(str[k]))
         IN IF next.carry > 0 THEN [ok |-> FALSE, value |-> Zero64]
            ELSE ParseDigits(str, k + 1, next.value)

\* the characters std::isspace accepts: the space, \t, \n, the vertical tab
\* (character 11, written as it is), \f and \r
WhiteSpace == {" ", "\t", "\n", "", "\f", "\r"}

\* std::stoull and std::stoll skip leading white space: the first position
\* from k on that holds none
RECURSIVE SkipSpace(_, _)
SkipSpace(str, k) ==
    IF k <= Len(str) /\ str[k] \in WhiteSpace THEN SkipSpace(str, k + 1) ELSE k

\* the text has a minus sign after the white space
IsNegative(str) ==
    SkipSpace(str, 1) <= Len(str) /\ str[SkipSpace(str, 1)] = "-"

\* the text after an optional sign has a digit to start with
HasDigits(str, k) == k <= Len(str) /\ IsDigit(str[k])

\* the position after the white space and an optional sign
AfterSign(str) ==
    LET k == SkipSpace(str, 1)
    IN IF k <= Len(str) /\ str[k] \in {"-", "+"} THEN k + 1 ELSE k

\* FromScaledTextValue<uint64_t>: std::stoull, which negates after a minus
\* sign; not ok stands for the exception thrown
FromScaledTextValueU64(str) ==
    IF ~HasDigits(str, AfterSign(str)) THEN [ok |-> FALSE, value |-> Zero64]
    ELSE LET parsed == ParseDigits(str, AfterSign(str), Zero64)
         IN IF parsed.ok /\ IsNegative(str)
            THEN [ok |-> TRUE, value |-> Negate(parsed.value)]
            ELSE parsed

\* FromScaledTextValue<int64_t>: std::stoll; a magnitude outside the range
\* of int64_t is std::out_of_range
FromScaledTextValueS64(str) ==
    IF ~HasDigits(str, AfterSign(str)) THEN [ok |-> FALSE, value |-> Zero64]
    ELSE LET parsed == ParseDigits(str, AfterSign(str), Zero64)
             top == WordsIn64 * WordBits - 1
         IN IF ~parsed.ok THEN parsed
            ELSE IF IsNegative(str)
            THEN (IF BitSet(parsed.value, top)
                     /\ parsed.value # OrOnesFrom(Zero64, top) \* not -2^63
                  THEN [ok |-> FALSE, value |-> Zero64]
                  ELSE [ok |-> TRUE, value |-> Negate(parsed.value)])
            ELSE (IF BitSet(parsed.value, top)
                  THEN [ok |-> FALSE, value |-> Zero64]
                  ELSE parsed)

\* ConvertMasterValue(reg, str)
ConvertMasterValueOf(format, str) ==
    LET parsed == IF format \in SignedFormats THEN FromScaledTextValueS64(str)
                  ELSE FromScaledTextValueU64(str)
    IN [ok |-> parsed.ok, value |-> AndMask(parsed.value, FormatWidth(format))]

\* ConvertMasterValue for the register of the write path, whose format is
\* U16 with scale 1 and offset 0: FromScaledTextValue<uint64_t>(reg, str) &
\* 0xffff, a number of one word; -1 stands for the exception of std::stoull
ConvertMasterValue(str) ==
    LET converted == ConvertMasterValueOf("U16", str)
    IN IF converted.ok THEN converted.value[1] ELSE -1

\* the register's value is turned into text
CallConvertSlaveValue ==
    /\ formatPc = "start"
    /\ textValue' = ConvertSlaveValueOf(Format, rawValue)
    /\ formatPc' = "text"
    /\ UNCHANGED << Format, rawValue, masterValue >>
    /\ UNCHANGED outsideFormat

\* the text is turned back into a value, or the conversion throws
CallConvertMasterValue ==
    /\ formatPc = "text"
    /\ LET converted == ConvertMasterValueOf(Format, textValue)
       IN /\ masterValue' = converted.value
          /\ formatPc' = IF converted.ok THEN "done" ELSE "error"
    /\ UNCHANGED << Format, rawValue, textValue >>
    /\ UNCHANGED outsideFormat

(***************************************************************************)
(* Virtual register: error state.                                          *)
(***************************************************************************)
\* EErrorState: a set of error flags, or the sentinel
NoError == {}
UnknownErrorState == {"UnknownErrorState"}

\* UpdateWriteError that assigns the state instead of adding or removing a flag
WriteErrorState_Overwrites(error) ==
    IF error THEN {"WriteError"} ELSE NoError

\* UpdateWriteError(error): the new ErrorState
WriteErrorState(error) ==
    LET cleared == IF ErrorState = UnknownErrorState THEN NoError ELSE ErrorState
    IN IF error THEN cleared \cup {"WriteError"} ELSE cleared \ {"WriteError"}

\* UpdateWriteError(error)
UpdateWriteError(error) ==
    /\ ErrorState' = WriteErrorState(error)
    /\ ChangedPublishData' = IF WriteErrorState(error) # ErrorState
                             THEN ChangedPublishData \cup {"Error"}
                             ELSE ChangedPublishData

(***************************************************************************)
(* TVirtualRegister::SetTextValue on the producer thread, one access to the *)
(* memory it shares with the bus thread per step.                          *)
(***************************************************************************)
\* The class of the members ValueToWrite and CurrentValue is declared in a
\* header: a holder of a formatter that is made from a pointer, can be null,
\* and is compared with and assigned a number.  What the assignment of one
\* holder to another copies is the header's choice: the number ("values"), or
\* the pointer, after which the two members hold their "own" formatters until
\* AcceptWriteValue makes them hold a "shared" one
HolderBuilds == {"values", "own"}

busVars == << CurrentValue, Holders, WriteQuery, ErrorState, ChangedPublishData,
              busPc, executed, flushExecutes >>

\* a call on a read-only register that goes on to store Dirty
SetTextValueReadOnly_StoresDirty ==
    /\ producerPc = "idle"
    /\ ReadOnly
    /\ \E str \in Texts : value' = str
    /\ Dirty' = TRUE
    /\ UNCHANGED << ReadOnly, OnValue, FlushNeeded, ValueToWrite, producerPc,
                    dirtyBy >>
    /\ UNCHANGED busVars
    /\ UNCHANGED outsideVReg

\* a call on a read-only register: the warning, and nothing else
SetTextValueReadOnly ==
    /\ producerPc = "idle"
    /\ ReadOnly
    /\ \E str \in Texts : value' = str
    /\ UNCHANGED << ReadOnly, OnValue, FlushNeeded, Dirty, ValueToWrite, producerPc,
                    dirtyBy >>
    /\ UNCHANGED busVars
    /\ UNCHANGED outsideVReg

\* Dirty.store(true)
SetTextValueStoreDirty ==
    /\ producerPc = "idle"
    /\ ~ReadOnly
    /\ \E str \in Texts :
          /\ value' = str
          /\ dirtyBy' = str
    /\ Dirty' = TRUE
    /\ producerPc' = "setValue"
    /\ UNCHANGED << ReadOnly, OnValue, FlushNeeded, ValueToWrite >>
    /\ UNCHANGED busVars
    /\ UNCHANGED outsideVReg

\* ValueToWrite->SetTextValue(...): the decoded value is stored, in the
\* formatter CurrentValue holds too if the two are shared, or the decoding
\* throws and the call ends
SetTextValueDecode ==
    /\ producerPc = "setValue"
    /\ LET decoded == ConvertMasterValue(MappedText(value))
       IN IF decoded < 0
          THEN /\ producerPc' = "idle"
               /\ UNCHANGED << ValueToWrite, CurrentValue >>
          ELSE /\ producerPc' = "signal"
               /\ ValueToWrite' = decoded
               /\ CurrentValue' = IF Holders = "shared" THEN decoded
                                  ELSE CurrentValue
    /\ UNCHANGED << ReadOnly, OnValue, FlushNeeded, Dirty, value, dirtyBy >>
    /\ UNCHANGED << Holders, WriteQuery, ErrorState, ChangedPublishData, busPc,
                    executed, flushExecutes >>
    /\ UNCHANGED outsideVReg

\* if (FlushNeeded): the call ends where no semaphore is installed
SetTextValueTestSignal ==
    /\ producerPc = "signal"
    /\ producerPc' = IF FlushNeeded = "null" THEN "idle" ELSE "signalCall"
    /\ UNCHANGED << ReadOnly, OnValue, FlushNeeded, Dirty, ValueToWrite, value,
                    dirtyBy >>
    /\ UNCHANGED busVars
    /\ UNCHANGED outsideVReg

\* FlushNeeded->Signal().  Where SetFlushSignal has replaced the member since
\* the test ("signalRaced"), the call signals the semaphore that was tested,
\* which is the register's no longer, or the member as it is now: the new
\* semaphore, or a null pointer: the build makes the call on the pointer the
\* test has read ("kept") or reads the member once more ("reread")
SetTextValueSignal ==
    /\ producerPc \in {"signalCall", "signalRaced"}
    /\ \E load \in {"kept", "reread"} :
          IF producerPc = "signalRaced" /\ load = "kept"
          THEN /\ producerPc' = "idle"
               /\ UNCHANGED << FlushNeeded, busPc >>
          ELSE IF FlushNeeded = "null"
          THEN /\ producerPc' = "crashed"
               /\ busPc' = "crashed"
               /\ UNCHANGED FlushNeeded
          ELSE /\ FlushNeeded' = "signalled"
               /\ producerPc' = "idle"
               /\ UNCHANGED busPc
    /\ UNCHANGED << ReadOnly, OnValue, Dirty, ValueToWrite, value, dirtyBy >>
    /\ UNCHANGED << CurrentValue, Holders, WriteQuery, ErrorState,
                    ChangedPublishData, executed, flushExecutes >>
    /\ UNCHANGED outsideVReg

\* TVirtualRegister::SetFlushSignal(flushNeeded), from any thread, with a
\* null pointer or with a semaphore other than the one installed, which
\* nobody has signalled yet.  A SetTextValue call between its test of the
\* member and its call of Signal has then tested a semaphore that is
\* installed no longer
SetFlushSignal(flushNeeded) ==
    /\ busPc # "crashed"
    /\ FlushNeeded' = flushNeeded
    /\ producerPc' = IF producerPc = "signalCall" THEN "signalRaced"
                     ELSE producerPc
    /\ UNCHANGED << ReadOnly, OnValue, Dirty, ValueToWrite, value, dirtyBy >>
    /\ UNCHANGED busVars
    /\ UNCHANGED outsideVReg

(***************************************************************************)
(* TVirtualRegister::Flush on the bus thread: the load and the store of     *)
(* Dirty, the loading of the query, and the blocking call of Execute, in   *)
(* which the producer goes on running.                                     *)
(***************************************************************************)
producerVars == << ReadOnly, OnValue, FlushNeeded, ValueToWrite, Holders,
                   producerPc, value, dirtyBy >>

\* the outcomes of TSerialDevice::Execute
QueryStatuses == {"Ok", "DeviceError", "UnknownError"}

\* the value of the context Flush hands to WriteQuery->SetValue
GetValueContext == CurrentValue

\* GetValueToWriteContext
GetValueToWriteContext == ValueToWrite

\* if (Dirty.load()): false, Flush returns
FlushNotDirty ==
    /\ busPc = "idle"
    /\ ~Dirty
    /\ flushExecutes' = 0
    /\ UNCHANGED << CurrentValue, WriteQuery, ErrorState, ChangedPublishData, busPc,
                    executed, Dirty >>
    /\ UNCHANGED producerVars
    /\ UNCHANGED outsideVReg

\* Flush that goes on to write when the last write has failed
FlushLoadDirty_Retries ==
    /\ busPc = "idle"
    /\ Dirty \/ "WriteError" \in ErrorState
    /\ busPc' = "storeDirty"
    /\ flushExecutes' = 0
    /\ UNCHANGED << CurrentValue, WriteQuery, ErrorState, ChangedPublishData,
                    executed, Dirty >>
    /\ UNCHANGED producerVars
    /\ UNCHANGED outsideVReg

\* if (Dirty.load()): true
FlushLoadDirty ==
    /\ busPc = "idle"
    /\ Dirty
    /\ busPc' = "storeDirty"
    /\ flushExecutes' = 0
    /\ UNCHANGED << CurrentValue, WriteQuery, ErrorState, ChangedPublishData,
                    executed, Dirty >>
    /\ UNCHANGED producerVars
    /\ UNCHANGED outsideVReg

\* Dirty.store(false)
FlushStoreDirty ==
    /\ busPc = "storeDirty"
    /\ Dirty' = FALSE
    /\ busPc' = "write"
    /\ UNCHANGED << CurrentValue, WriteQuery, ErrorState, ChangedPublishData,
                    executed, flushExecutes >>
    /\ UNCHANGED producerVars
    /\ UNCHANGED outsideVReg

\* WriteQuery->ResetStatus(); WriteQuery->SetValue(GetValueContext()); the
\* bus thread then enters GetDevice()->Execute(WriteQuery)
FlushSetValue ==
    /\ busPc = "write"
    /\ WriteQuery' = [Status |-> "NotExecuted", Value |-> GetValueContext]
    /\ busPc' = "execute"
    /\ UNCHANGED << CurrentValue, ErrorState, ChangedPublishData, executed,
                    flushExecutes, Dirty >>
    /\ UNCHANGED producerVars
    /\ UNCHANGED outsideVReg

\* TVirtualRegister::AcceptWriteValue, called by the bus thread between its
\* flushes or, from the device, while a write query executes.  On a read-only
\* register ValueToWrite is null: copying its number dereferences it and the
\* process ends, copying the pointer leaves CurrentValue null as well
AcceptWriteValue ==
    /\ busPc \in {"idle", "execute"}
    /\ IF ReadOnly /\ Holders = "values"
       THEN /\ busPc' = "crashed"
            /\ producerPc' = "crashed"
            /\ UNCHANGED << CurrentValue, Holders, ErrorState, ChangedPublishData >>
       ELSE /\ CurrentValue' = ValueToWrite
            /\ Holders' = IF Holders = "values" THEN "values" ELSE "shared"
            /\ UpdateWriteError(FALSE)
            /\ UNCHANGED << busPc, producerPc >>
    /\ UNCHANGED << WriteQuery, executed, flushExecutes, Dirty >>
    /\ UNCHANGED << ReadOnly, OnValue, FlushNeeded, ValueToWrite, value, dirtyBy >>
    /\ UNCHANGED outsideVReg

\* GetDevice()->Execute(WriteQuery) returns with the query's status, and
\* UpdateWriteError(WriteQuery->GetStatus() != EQueryStatus::Ok)
FlushExecute ==
    /\ busPc = "execute"
    /\ \E status \in QueryStatuses :
          /\ WriteQuery' = [WriteQuery EXCEPT !.Status = status]
          /\ UpdateWriteError(status # "Ok")
    /\ executed' = WriteQuery.Value
    /\ flushExecutes' = flushExecutes + 1
    /\ busPc' = "idle"
    /\ UNCHANGED << CurrentValue, Dirty >>
    /\ UNCHANGED producerVars
    /\ UNCHANGED outsideVReg

(***************************************************************************)
(* Virtual register: the read side.                                        *)
(***************************************************************************)
\* the raw values a device may deliver
RawValues == 0..MaxValue

\* NeedToPoll that does not look at Dirty
NeedToPoll_IgnoresDirty == Poll

\* TVirtualRegister::NeedToPoll
NeedToPoll == Poll /\ ~Dirty

\* UpdateReadError(error): the new ErrorState
ReadErrorState(error) ==
    LET cleared == IF ErrorState = UnknownErrorState THEN NoError ELSE ErrorState
    IN IF error THEN cleared \cup {"ReadError"} ELSE cleared \ {"ReadError"}

\* UpdateReadError flagging Error whether or not the state changed
UpdateReadErrorFrom_AlwaysFlags(changed, error) ==
    /\ ErrorState' = ReadErrorState(error)
    /\ ChangedPublishData' = changed \cup {"Error"}

\* UpdateReadError(error), run when the publish flags are changed
UpdateReadErrorFrom(changed, error) ==
    /\ ErrorState' = ReadErrorState(error)
    /\ ChangedPublishData' = IF ReadErrorState(error) # ErrorState
                             THEN changed \cup {"Error"}
                             ELSE changed

\* the comparison with ErrorValue made without looking at HasErrorValue
IsErrorValue_Unconfigured(new_value) == ErrorValue = new_value

\* the raw value is the configured error value
IsErrorValue(new_value) == HasErrorValue /\ ErrorValue = new_value

\* the publish flags AcceptDeviceValue sets before it updates the error state
AcceptedChanged(new_value) ==
    IF CurrentValue # new_value \/ ~ValueWasAccepted
    THEN ChangedPublishData \cup {"Value"}
    ELSE ChangedPublishData

readFrame == << ReadOnly, OnValue, FlushNeeded, Dirty, Holders, WriteQuery,
                producerPc, value, busPc, dirtyBy, executed, flushExecutes,
                Poll, HasErrorValue, ErrorValue >>

\* TVirtualRegister::AcceptDeviceValue(new_value), called by the bus thread
\* between its flushes; assert(!ValueIsRead) is compiled out, so a second
\* value delivered in one cycle is taken as the first is.  The new value is
\* stored in the formatter CurrentValue holds, which ValueToWrite holds too
\* if the two are shared
AcceptDeviceValue(new_value) ==
    /\ busPc = "idle"
    /\ pollOp' = [op |-> "AcceptDeviceValue", raw |-> new_value,
                  polled |-> NeedToPoll]
    /\ IF ~NeedToPoll
       THEN UNCHANGED << ValueIsRead, ValueWasAccepted, CurrentValue, ValueToWrite,
                         ErrorState, ChangedPublishData, valueAccepted >>
       ELSE /\ ValueIsRead' = TRUE
            /\ ValueWasAccepted' = TRUE
            /\ IF IsErrorValue(new_value)
               THEN /\ UpdateReadErrorFrom(ChangedPublishData, TRUE)
                    /\ UNCHANGED << CurrentValue, ValueToWrite, valueAccepted >>
               ELSE /\ CurrentValue' = new_value
                    /\ ValueToWrite' = IF Holders = "shared" THEN new_value
                                       ELSE ValueToWrite
                    /\ UpdateReadErrorFrom(AcceptedChanged(new_value), FALSE)
                    /\ valueAccepted' = TRUE
    /\ UNCHANGED readFrame
    /\ UNCHANGED outsideRead

\* a read query of the register fails: UpdateReadError(true)
UpdateReadError ==
    /\ busPc = "idle"
    /\ UpdateReadErrorFrom(ChangedPublishData, TRUE)
    /\ pollOp' = [op |-> "UpdateReadError", raw |-> 0, polled |-> NeedToPoll]
    /\ UNCHANGED << ValueIsRead, ValueWasAccepted, CurrentValue, ValueToWrite,
                    valueAccepted >>
    /\ UNCHANGED readFrame
    /\ UNCHANGED outsideRead

\* TVirtualRegister::ResetChanged(state), called by the publisher between cycles
ResetChanged(state) ==
    /\ busPc = "idle"
    /\ state \in ChangedPublishData
    /\ ChangedPublishData' = ChangedPublishData \ {state}
    /\ pollOp' = [op |-> "ResetChanged", raw |-> 0, polled |-> NeedToPoll]
    /\ UNCHANGED << ValueIsRead, ValueWasAccepted, CurrentValue, ValueToWrite,
                    ErrorState, valueAccepted >>
    /\ UNCHANGED readFrame
    /\ UNCHANGED outsideRead

\* TVirtualRegister::InvalidateReadValues, at the cycle boundary
InvalidateReadValues ==
    /\ busPc = "idle"
    /\ ValueIsRead
    /\ ValueIsRead' = FALSE
    /\ pollOp' = [op |-> "InvalidateReadValues", raw |-> 0, polled |-> NeedToPoll]
    /\ UNCHANGED << ValueWasAccepted, CurrentValue, ValueToWrite, ErrorState,
                    ChangedPublishData, valueAccepted >>
    /\ UNCHANGED readFrame
    /\ UNCHANGED outsideRead

(***************************************************************************)
(* Memory blocks, their linkage, and TVirtualRegister::Create.             *)
(***************************************************************************)
\* bits of a block of the register type
BlockBits == RegType.Size * 8

\* the widest register Initialize accepts
MaxRegisterWidth == 64

\* the configurations of the model: registers that start at a block boundary
\* or in the middle of a block, and cover half a block, a block, 64 bits or
\* 72 bits
VRegConfigs ==
    [Address   : 0..MaxCfgAddr,
     BitOffset : {0, BlockBits \div 2},
     BitWidth  : {BlockBits \div 2, BlockBits, MaxRegisterWidth,
                  MaxRegisterWidth + BlockBits \div 2},
     ReadOnly  : BOOLEAN]

\* the register's bits in the bit space of its type
FirstBit(config) == config.Address * BlockBits + config.BitOffset
EndBit(config) == FirstBit(config) + config.BitWidth

\* TMemoryBlockFactory::GenerateMemoryBlocks: the blocks a register's bits
\* fall into, each with the bit range of the block the register covers
BlockAddrs(config) ==
    {a \in 0..(EndBit(config) \div BlockBits) :
        a * BlockBits < EndBit(config) /\ (a + 1) * BlockBits > FirstBit(config)}
GenerateMemoryBlocks(config) ==
    [a \in BlockAddrs(config) |->
        [BitStart |-> Max(FirstBit(config) - a * BlockBits, 0),
         BitEnd   |-> Min(EndBit(config) - a * BlockBits, BlockBits)]]

\* the block addresses of the device
LinkAddrs == UNION {BlockAddrs(config) : config \in VRegConfigs}

\* TIRBindInfo::BitCount
BitCount(bindInfo) == bindInfo.BitEnd - bindInfo.BitStart

\* the order of two registers' value contexts: the first ends before the
\* second begins (AreOverlapping: neither is before the other)
ValueContextLess(m1, m2) ==
    LET last  == CHOOSE a \in DOMAIN m1 : \A b \in DOMAIN m1 : b <= a
        first == CHOOSE a \in DOMAIN m2 : \A b \in DOMAIN m2 : a <= b
    IN \/ last < first
       \/ last = first /\ m1[last].BitEnd <= m2[first].BitStart

\* TVirtualRegister::AreOverlapping for registers of one device and type
AreOverlapping(r1, r2) ==
    /\ ~ValueContextLess(r1.MemoryBlocks, r2.MemoryBlocks)
    /\ ~ValueContextLess(r2.MemoryBlocks, r1.MemoryBlocks)

\* VirtualRegisters.find(vreg): the linked registers equivalent to vreg in
\* the set's order
Find(VirtualRegisters, vreg, regs) ==
    {id \in VirtualRegisters : AreOverlapping(regs[id], regs[vreg])}

\* VirtualRegisters.insert(vreg)
LinkWithImpl(VirtualRegisters, vreg, regs) ==
    IF Find(VirtualRegisters, vreg, regs) # {} THEN VirtualRegisters
    ELSE VirtualRegisters \cup {vreg}

\* no register has been asked for yet
NoCreate ==
    [status |-> "none", at |-> -1, queries |-> 0,
     config |-> [Address |-> 0, BitOffset |-> 0, BitWidth |-> 0, ReadOnly |-> TRUE]]

\* a block without linkage, as the constructors without a device leave it
NoLinkage == [kind |-> "null", VirtualRegisters |-> {}]

\* no call has been made on a block since the set-up
NoBlockOp == [op |-> "none", at |-> -1, vreg |-> 0, threw |-> FALSE, calls |-> 0]

\* TMemoryBlock::InitExternalLinkage(device)
InitExternalLinkageDevice(linkage) ==
    IF linkage.kind = "device"
    THEN [installed |-> FALSE, linkage |-> linkage]
    ELSE [installed |-> TRUE,
          linkage   |-> [kind |-> "device", VirtualRegisters |-> {}]]

\* TMemoryBlock::InitExternalLinkage(vreg)
InitExternalLinkageVReg(linkage, vreg, regs) ==
    IF linkage.kind = "vreg"
    THEN [installed |-> FALSE, linkage |-> linkage]
    ELSE [installed |-> TRUE,
          linkage   |-> [kind |-> "vreg",
                         VirtualRegisters |-> LinkWithImpl({}, vreg, regs)]]

\* TVirtualRegisterLinkage::LinkWith without the check for overlapping
LinkWith_NoOverlapCheck(linkage, vreg, regs) ==
    [threw |-> FALSE,
     linkage |-> [linkage EXCEPT
                    !.VirtualRegisters = LinkWithImpl(@, vreg, regs)]]

\* TVirtualRegisterLinkage::LinkWith: throws when an overlapping register is
\* linked already
LinkWith(linkage, vreg, regs) ==
    IF Find(linkage.VirtualRegisters, vreg, regs) # {}
    THEN [threw |-> TRUE, linkage |-> linkage]
    ELSE [threw |-> FALSE,
          linkage |-> [linkage EXCEPT
                         !.VirtualRegisters = LinkWithImpl(@, vreg, regs)]]

\* TMemoryBlock::AssociateWith
AssociateWith(linkage, vreg, regs) ==
    LET init == InitExternalLinkageVReg(linkage, vreg, regs)
    IN IF init.installed THEN [threw |-> FALSE, linkage |-> init.linkage]
       ELSE LinkWith(linkage, vreg, regs)

\* the loop of Initialize over the register's blocks, in the map's order:
\* the width is summed and every block is associated with the register
RECURSIVE InitializeLoop(_, _, _, _, _)
InitializeLoop(linkages, addrs, vreg, regs, width) ==
    IF addrs = {} THEN [threw |-> FALSE, at |-> -1, linkages |-> linkages,
                        width |-> width]
    ELSE LET a == CHOOSE x \in addrs : \A y \in addrs : x <= y
             assoc == AssociateWith(linkages[a], vreg, regs)
         IN IF assoc.threw
            THEN [threw |-> TRUE, at |-> a, linkages |-> linkages, width |-> width]
            ELSE InitializeLoop([linkages EXCEPT ![a] = assoc.linkage],
                                addrs \ {a}, vreg, regs,
                                width + BitCount(regs[vreg].MemoryBlocks[a]))

\* the width test of Initialize rejecting a register of exactly 64 bits
WidthExceeded_Inclusive(width) == width >= MaxRegisterWidth

\* the width test of Initialize
WidthExceeded(width) == width > MaxRegisterWidth

\* TIRDeviceQuerySet({ self }, EQueryOperation::Write) that builds the query
\* without the pre-check of the register's blocks
WriteQuerySet_NoPreCheck(self, vreg) ==
    LET blocks == {MemoryBlock(a, RegType.Size, RegType) : a \in DOMAIN self.MemoryBlocks}
        sets   == MergeSets(<< [first |-> blocks, second |-> << vreg >>] >>)
    IN [threw   |-> "ok",
        Queries |-> [k \in 1..Len(sets) |-> CreateQuery(sets[k])]]

\* TIRDeviceQuerySet({ self }, EQueryOperation::Write): the register is handed
\* to GenerateQueries, which makes one entry of the register's blocks, has
\* CheckSets test it against the limits of a write (operation is Write, policy
\* the default Minify) and adds one query per entry MergeSets leaves.  threw
\* is "ok" or the exception of CheckSets.
WriteQuerySet(self, vreg) ==
    LET blocks == {MemoryBlock(a, RegType.Size, RegType) : a \in DOMAIN self.MemoryBlocks}
        list   == << [first |-> blocks, second |-> << vreg >>] >>
        check  == CheckSets(list)
        sets   == MergeSets(list)
    IN IF check # "ok" THEN [threw |-> check, Queries |-> << >>]
       ELSE [threw   |-> "ok",
             Queries |-> [k \in 1..Len(sets) |-> CreateQuery(sets[k])]]

\* TVirtualRegister::Create(config, device): the constructor and Initialize.
\* A register whose Initialize throws is destroyed; the blocks it was
\* associated with keep their reference to it.  WriteQuery is << >> for
\* nullptr, or holds the first query of the write query set; queries is the
\* number of queries of that set (0: none was built).  The asserts of
\* Initialize are compiled out and stop nothing.
CreateOutcome(regs, linkages, config) ==
    LET self == [Config |-> config,
                 Type |-> RegType.Index,
                 MemoryBlocks |-> GenerateMemoryBlocks(config),
                 WriteQuery |-> << >>]
        all  == Append(regs, self)
        loop == InitializeLoop(linkages, DOMAIN self.MemoryBlocks, Len(all), all, 0)
        querySet == WriteQuerySet(self, Len(all))
    IN IF loop.threw
       THEN [status |-> "overlapping", at |-> loop.at, queries |-> 0,
             registers |-> regs, linkages |-> loop.linkages]
       ELSE IF WidthExceeded(loop.width)
       THEN [status |-> "width", at |-> -1, queries |-> 0,
             registers |-> regs, linkages |-> loop.linkages]
       ELSE IF config.ReadOnly
       THEN [status |-> "ok", at |-> -1, queries |-> 0,
             registers |-> all, linkages |-> loop.linkages]
       ELSE IF querySet.threw # "ok"
       THEN [status |-> querySet.threw, at |-> -1, queries |-> 0,
             registers |-> regs, linkages |-> loop.linkages]
       ELSE [status |-> "ok", at |-> -1, queries |-> Len(querySet.Queries),
             registers |-> Append(regs,
                 [self EXCEPT !.WriteQuery = << querySet.Queries[1] >>]),
             linkages |-> loop.linkages]

\* a configuration error aborts the construction of the catalogue
CatalogueAlive == lastCreate.status \in {"none", "ok"}

Create(config) ==
    /\ CatalogueAlive
    /\ Len(registers) < MaxVRegs
    /\ LET out == CreateOutcome(registers, ExternalLinkage, config)
       IN /\ registers' = out.registers
          /\ ExternalLinkage' = out.linkages
          /\ lastCreate' = [status |-> out.status, at |-> out.at, config |-> config,
                           queries |-> out.queries]
    /\ UNCHANGED << TypeReadOnly, Cache, lastBlockOp >>
    /\ UNCHANGED outsideCreate

\* memoryBlock->AssociateWith(vreg) called once more for a register that
\* Initialize has associated with block a; an exception ends the set-up
AssociateAgain(vreg, a) ==
    /\ CatalogueAlive
    /\ lastBlockOp.op = "none"
    /\ vreg \in 1..Len(registers)
    /\ a \in DOMAIN registers[vreg].MemoryBlocks
    /\ LET assoc == AssociateWith(ExternalLinkage[a], vreg, registers)
       IN /\ ExternalLinkage' = [ExternalLinkage EXCEPT ![a] = assoc.linkage]
          /\ lastBlockOp' = [op |-> "AssociateWith", at |-> a, vreg |-> vreg,
                             threw |-> assoc.threw, calls |-> 1]
          /\ lastCreate' = IF assoc.threw
                           THEN [lastCreate EXCEPT !.status = "overlapping", !.at = a]
                           ELSE lastCreate
    /\ UNCHANGED << TypeReadOnly, Cache, registers >>
    /\ UNCHANGED outsideCreate

\* the buffers a device may hand to AssignCache: zeroed, or filled
CacheBuffers == {0, 2^BlockBits - 1}

\* TMemoryBlock::AssignCache(cache): the two assertions are compiled out and
\* the pointer is stored
AssignCache(a, cache) ==
    /\ CatalogueAlive
    /\ lastBlockOp.calls < MaxAssigns
    /\ Cache' = [Cache EXCEPT ![a] = cache]
    /\ lastBlockOp' = [op |-> "AssignCache", at |-> a, vreg |-> 0,
                       threw |-> FALSE, calls |-> lastBlockOp.calls + 1]
    /\ UNCHANGED << TypeReadOnly, ExternalLinkage, registers, lastCreate >>
    /\ UNCHANGED outsideCreate

\* TVirtualRegisterLinkage::NeedsCaching looking at the block's type only
LinkageNeedsCaching_AnyRegister(VirtualRegisters, a) ==
    \E id \in VirtualRegisters :
        /\ ~TypeReadOnly
        /\ registers[id].MemoryBlocks[a] # [BitStart |-> 0, BitEnd |-> BlockBits]

\* TVirtualRegisterLinkage::NeedsCaching asking every register, not any
LinkageNeedsCaching_EveryRegister(VirtualRegisters, a) ==
    \A id \in VirtualRegisters :
        /\ ~TypeReadOnly /\ ~registers[id].Config.ReadOnly
        /\ registers[id].MemoryBlocks[a] # [BitStart |-> 0, BitEnd |-> BlockBits]

\* TVirtualRegisterLinkage::NeedsCaching
LinkageNeedsCaching(VirtualRegisters, a) ==
    \E id \in VirtualRegisters :
        /\ ~TypeReadOnly /\ ~registers[id].Config.ReadOnly
        /\ registers[id].MemoryBlocks[a] # [BitStart |-> 0, BitEnd |-> BlockBits]

\* TMemoryBlock::NeedsCaching
NeedsCaching(a) ==
    /\ ExternalLinkage[a].kind # "null"
    /\ IF ExternalLinkage[a].kind = "device" THEN FALSE
       ELSE LinkageNeedsCaching(ExternalLinkage[a].VirtualRegisters, a)

\* TVirtualRegister::GetBitPosition, in uint64_t (no value of the model
\* reaches 2^64 or falls below 0): the blocks are of the register type
GetBitPosition(vreg) ==
    (vreg.Config.Address * RegType.Size * 8) + vreg.Config.BitWidth
        - vreg.Config.BitOffset

\* TVirtualRegister::operator== for the registers i and j of the one device
RegisterEquals(regs, i, j) ==
    IF i = j THEN TRUE
    ELSE GetBitPosition(regs[i]) = GetBitPosition(regs[j])

\* the device gives a buffer to a block that needs one and has none: the
\* call of AssignCache in which both of its assertions hold
WireCache(a, cache) ==
    /\ CatalogueAlive
    /\ NeedsCaching(a)
    /\ Cache[a] < 0
    /\ AssignCache(a, cache)

\* TMemoryBlock::GetCache: the assertion is compiled out and the view of the
\* block's buffer, or of none, is returned
GetCache(a) ==
    /\ CatalogueAlive
    /\ lastBlockOp' = [op |-> "GetCache", at |-> a, vreg |-> 0,
                       threw |-> FALSE, calls |-> lastBlockOp.calls]
    /\ UNCHANGED << TypeReadOnly, ExternalLinkage, Cache, registers, lastCreate >>
    /\ UNCHANGED outsideCreate

(***************************************************************************)
(* TIRDeviceQueryFactory::GenerateQuerySets.  A register of the input      *)
(* vector is its position in the vector; the vector holds the registers'   *)
(* poll intervals.                                                         *)
(***************************************************************************)
PollIntervalChoices == {100, 500, 1000}

\* the first register of an interval appends the interval to pollIntervals
NotePollInterval_Always(pollIntervals, virtualRegisterSets, pollInterval) ==
    Append(pollIntervals, pollInterval)

NotePollInterval(pollIntervals, virtualRegisterSets, pollInterval) ==
    IF virtualRegisterSets = << >>
    THEN Append(pollIntervals, pollInterval)
    ELSE pollIntervals

\* the loop over the input vector, from register i on
RECURSIVE CollectByInterval(_, _, _, _)
CollectByInterval(vregs, i, virtualRegistersByTypeAndInterval, pollIntervals) ==
    IF i > Len(vregs)
    THEN [virtualRegistersByTypeAndInterval |-> virtualRegistersByTypeAndInterval,
          pollIntervals |-> pollIntervals]
    ELSE LET pollInterval == vregs[i]
             virtualRegisterSets == virtualRegistersByTypeAndInterval[pollInterval]
         IN CollectByInterval(vregs, i + 1,
                [virtualRegistersByTypeAndInterval EXCEPT ![pollInterval] = Append(@, i)],
                NotePollInterval(pollIntervals, virtualRegisterSets, pollInterval))

\* the loop over pollIntervals: one pair per entry, the query set standing for
\* the arguments of its constructor
GenerateQuerySets(vregs, op) ==
    LET collected == CollectByInterval(vregs, 1,
                        [pollInterval \in PollIntervalChoices |-> << >>], << >>)
    IN [k \in 1..Len(collected.pollIntervals) |->
          LET _pollInterval == collected.pollIntervals[k]
          IN [pollInterval |-> _pollInterval,
              querySet |-> [registers |-> collected.virtualRegistersByTypeAndInterval[_pollInterval],
                            operation |-> op]]]

CallGenerateQuerySets(op) ==
    /\ querySetsPc = "start"
    /\ querySetsByPollInterval' = GenerateQuerySets(virtualRegisters, op)
    /\ querySetsPc' = "done"
    /\ UNCHANGED virtualRegisters
    /\ UNCHANGED outsideQuerySets

(***************************************************************************)
(* The outgoing image of a write query.                                    *)
(***************************************************************************)
\* bits [from, to) of an image, counted from the least significant bit
BitsOf(image, from, to) == (image \div 2^from) % 2^(to - from)

\* an image with bits [from, to) replaced by the low bits of val
Overlay(image, from, to, val) ==
    ((image \div 2^to) * 2^to) + ((val % 2^(to - from)) * 2^from) + (image % 2^from)

\* the images a cache may hold: all zeros, all ones, alternating bits
CacheChoices == {0, 2^BlockBits - 1, (2^BlockBits - 1) \div 3}

\* TIRDeviceValueQuery::SetValue(context) for the query of one register: the
\* image of block a starts from the block's cache, or from zero without one,
\* and takes the bits of the context's value the register covers in the block
OutgoingImage(a, vreg, contextValue) ==
    LET bindInfo == registers[vreg].MemoryBlocks[a]
        base == IF Cache[a] >= 0 THEN Cache[a] ELSE 0
    IN Overlay(base, bindInfo.BitStart, bindInfo.BitEnd, contextValue)

(***************************************************************************)
(* Specifications.                                                         *)
(***************************************************************************)
\* TVirtualRegister::TVirtualRegister and Initialize
VRegConstructed ==
    /\ FlushNeeded = "null"
    /\ Dirty = FALSE
    /\ ValueToWrite = 0
    /\ CurrentValue = 0
    /\ WriteQuery = [Status |-> "NotExecuted", Value |-> 0]
    /\ ErrorState = UnknownErrorState
    /\ ChangedPublishData = {}
    /\ producerPc = "idle"
    /\ value = << >>
    /\ busPc = "idle"
    /\ dirtyBy = << >>
    /\ executed = -1
    /\ flushExecutes = 0

\* the read side of a register that has not been polled
PollConstructed ==
    /\ ValueIsRead = FALSE
    /\ ValueWasAccepted = FALSE
    /\ pollOp = [op |-> "none", raw |-> 0, polled |-> FALSE]
    /\ valueAccepted = FALSE

\* a polled register without an error value
PollIdle ==
    /\ Poll = TRUE
    /\ HasErrorValue = FALSE
    /\ ErrorValue = 0
    /\ PollConstructed

\* no register has been created on the device's blocks
CreateIdle ==
    /\ TypeReadOnly = FALSE
    /\ ExternalLinkage = [a \in LinkAddrs |-> NoLinkage]
    /\ Cache = [a \in LinkAddrs |-> -1]
    /\ registers = << >>
    /\ lastCreate = NoCreate
    /\ lastBlockOp = NoBlockOp

\* getMaxHoleAndRegs has not been called
LimitsIdle == typeInfo = [type |-> -1, maxHole |-> ToU32(0), maxRegs |-> ToU32(0)]

\* no value is being converted
FormatIdle ==
    /\ Format = "U16"
    /\ rawValue = << 0, 0, 0, 0 >>
    /\ textValue = << >>
    /\ masterValue = << 0, 0, 0, 0 >>
    /\ formatPc = "idle"

\* GenerateQuerySets has not been called
QuerySetIdle ==
    /\ virtualRegisters = << >>
    /\ querySetsByPollInterval = << >>
    /\ querySetsPc = "start"

\* the protocol of the modelled device: the variadic type is its bit type
ModelProtocol ==
    [SingleBitTypes    |-> {VarType.Index},
     MaxReadBits       |-> ProtoMaxRegs,
     MaxReadRegisters  |-> ProtoMaxRegs,
     MaxWriteBits      |-> ProtoMaxRegs,
     MaxWriteRegisters |-> ProtoMaxRegs]

\* the device configurations: max_reg_hole is read under Minify only
InitConfig ==
    /\ policy \in {"Minify", "NoDuplicates"}
    /\ deviceConfig \in [MaxBitHole : {0},
                         MaxRegHole : IF policy = "Minify" THEN 0..MaxHoleCfg ELSE {0},
                         MaxReadRegisters : {DevMaxRead}]
    /\ protocolInfo = ModelProtocol
    /\ operation \in {"Read", "Write"}

\* the blocks of a virtual register: a run of consecutive addresses of the
\* register type, or one block of the variadic type
RegisterBlockSets ==
    ({{b \in RegBlocks : lo <= b.Address /\ b.Address <= hi} :
        lo \in 0..MaxAddr, hi \in 0..MaxAddr} \ {{}})
      \cup {{b} : b \in VarBlocks}

\* GenerateQueries(virtualRegisters, operation, policy) is called on up to
\* MaxSets registers of a device that may hold one more block
InitMerge ==
    /\ InitConfig
    /\ ReadOnly = FALSE /\ OnValue = << >> /\ Holders = "own"
    /\ VRegConstructed /\ PollIdle
    /\ CreateIdle
    /\ QuerySetIdle
    /\ LimitsIdle
    /\ FormatIdle
    /\ \E n \in 1..MaxSets : \E sets \in [1..n -> RegisterBlockSets] :
         LET used == UNION {sets[k] : k \in 1..n}
         IN \E extra \in {{}} \cup {{b} : b \in RegBlocks \ used} :
               /\ input = GroupedMemoryBlocks(sets)
               /\ deviceBlocks = extra \cup used
    /\ memoryBlockSets = input
    /\ result = << >>
    /\ pc = "start"

\* any block set of at most MaxSetSize blocks
BlockSetChoices ==
    {s \in SUBSET AllBlocks : s # {} /\ Cardinality(s) <= MaxSetSize}

\* GenerateQueries(memoryBlockSets, operation, policy) is called on a list of
\* up to MaxCheckSets arbitrary block sets
InitPreCheck ==
    /\ InitConfig
    /\ ReadOnly = FALSE /\ OnValue = << >> /\ Holders = "own"
    /\ VRegConstructed /\ PollIdle
    /\ CreateIdle
    /\ QuerySetIdle
    /\ LimitsIdle
    /\ FormatIdle
    /\ \E n \in 1..MaxCheckSets : \E sets \in [1..n -> BlockSetChoices] :
            /\ input = GroupedMemoryBlocks(sets)
            /\ deviceBlocks = UNION {sets[k] : k \in 1..n}
    /\ memoryBlockSets = input
    /\ result = << >>
    /\ pc = "start"

NextMerge == GenerateQueriesReturns \/ GenerateQueriesThrows

SpecMerge == InitMerge /\ [][NextMerge]_vars

SpecPreCheck == InitPreCheck /\ [][NextMerge]_vars

\* no list is being handed to GenerateQueries by a poll cycle.  The device
\* holds the blocks of the register type, its protocol is the model's, and
\* operation and policy are the arguments of the one call Initialize makes
\* for a writable register: EQueryOperation::Write and the default policy
MergeIdle ==
    /\ deviceBlocks = {MemoryBlock(a, RegType.Size, RegType) : a \in LinkAddrs}
    /\ deviceConfig = [MaxBitHole |-> 0, MaxRegHole |-> 0, MaxReadRegisters |-> 0]
    /\ protocolInfo = ModelProtocol
    /\ input = << >>
    /\ operation = "Write"
    /\ policy = "Minify"
    /\ memoryBlockSets = << >>
    /\ result = << >>
    /\ pc = "idle"

\* a register of a device whose queries are not being generated; the register
\* has been polled before (CurrentValue is any value) and has no semaphore
\* until SetFlushSignal installs one
InitVReg ==
    /\ ReadOnly \in BOOLEAN
    /\ OnValue \in {<< >>, ToText(MaxValue)}
    /\ FlushNeeded = "null"
    /\ Dirty = FALSE
    /\ ValueToWrite = IF ReadOnly THEN -1 ELSE 0
    /\ CurrentValue \in 0..MaxValue
    /\ Holders \in HolderBuilds
    /\ WriteQuery = [Status |-> "NotExecuted", Value |-> 0]
    /\ ErrorState = UnknownErrorState
    /\ ChangedPublishData = {}
    /\ producerPc = "idle"
    /\ value = << >>
    /\ busPc = "idle"
    /\ dirtyBy = << >>
    /\ executed = -1
    /\ flushExecutes = 0
    /\ PollIdle
    /\ CreateIdle
    /\ MergeIdle
    /\ QuerySetIdle
    /\ LimitsIdle
    /\ FormatIdle

NextVReg ==
    \/ SetTextValueReadOnly
    \/ SetTextValueStoreDirty
    \/ SetTextValueDecode
    \/ SetTextValueTestSignal
    \/ SetTextValueSignal
    \/ \E flushNeeded \in {"null", "idle"} : SetFlushSignal(flushNeeded)
    \/ FlushNotDirty
    \/ FlushLoadDirty
    \/ FlushStoreDirty
    \/ FlushSetValue
    \/ AcceptWriteValue
    \/ FlushExecute

SpecVReg == InitVReg /\ [][NextVReg]_vars

\* a writable register, freshly created, polled or not, with or without an
\* error value, read and flushed by the bus thread and written by a producer
\* thread, which hands it one text that decodes and one that does not; the
\* device delivers two values and the error value, and a write query ends
\* with Ok or with DeviceError
InitPoll ==
    /\ ReadOnly = FALSE
    /\ OnValue = << >>
    /\ Holders \in HolderBuilds
    /\ VRegConstructed
    /\ Poll \in BOOLEAN
    /\ HasErrorValue \in BOOLEAN
    /\ ErrorValue = MaxValue
    /\ PollConstructed
    /\ CreateIdle
    /\ MergeIdle
    /\ QuerySetIdle
    /\ LimitsIdle
    /\ FormatIdle

NextPoll ==
    \/ \E new_value \in {0, 1, ErrorValue} : AcceptDeviceValue(new_value)
    \/ UpdateReadError
    \/ \E state \in {"Value", "Error"} : ResetChanged(state)
    \/ InvalidateReadValues
    \/ SetTextValueStoreDirty /\ value' \in {ToText(1), << "x" >>}
    \/ SetTextValueDecode
    \/ SetTextValueTestSignal
    \/ FlushLoadDirty
    \/ FlushStoreDirty
    \/ FlushSetValue
    \/ AcceptWriteValue
    \/ FlushExecute /\ WriteQuery'.Status \in {"Ok", "DeviceError"}

SpecPoll == InitPoll /\ [][NextPoll]_vars

\* the blocks of a device, constructed with or without the device, and no
\* register yet; registers are created one after the other on the main thread
InitCreate ==
    /\ TypeReadOnly \in BOOLEAN
    /\ \E linkage \in {NoLinkage, InitExternalLinkageDevice(NoLinkage).linkage} :
          ExternalLinkage = [a \in LinkAddrs |-> linkage]
    /\ Cache = [a \in LinkAddrs |-> -1]
    /\ registers = << >>
    /\ lastCreate = NoCreate
    /\ lastBlockOp = NoBlockOp
    /\ ReadOnly = FALSE /\ OnValue = << >> /\ Holders = "own"
    /\ VRegConstructed /\ PollIdle
    /\ MergeIdle
    /\ QuerySetIdle
    /\ LimitsIdle
    /\ FormatIdle

NextCreate == \E config \in VRegConfigs : Create(config)

SpecCreate == InitCreate /\ [][NextCreate]_vars

\* the single-block registers of a run of n consecutive addresses from a on,
\* in ascending order
RunOfRegisters(a, n) ==
    [k \in 1..n |-> {MemoryBlock(a + k - 1, RegType.Size, RegType)}]

\* GenerateQueries(virtualRegisters, Read, Minify) is called on a run of
\* single-block registers of a device that allows no hole and whose
\* max_read_registers is unset, below, at or above the protocol's maximum
InitRun ==
    /\ policy = "Minify"
    /\ operation = "Read"
    /\ protocolInfo = ModelProtocol
    /\ deviceConfig \in [MaxBitHole : {0}, MaxRegHole : {0},
                         MaxReadRegisters : 0..(ProtoMaxRegs + 1)]
    /\ \E a \in 0..MaxAddr : \E n \in 1..MaxRunRegs :
          /\ input = GroupedMemoryBlocks(RunOfRegisters(a, n))
          /\ deviceBlocks = UNION {RunOfRegisters(a, n)[k] : k \in 1..n}
    /\ memoryBlockSets = input
    /\ result = << >>
    /\ pc = "start"
    /\ ReadOnly = FALSE /\ OnValue = << >> /\ Holders = "own"
    /\ VRegConstructed /\ PollIdle
    /\ CreateIdle
    /\ QuerySetIdle
    /\ LimitsIdle
    /\ FormatIdle

SpecRun == InitRun /\ [][GenerateQueriesReturns]_vars

\* the protocols of the model: the four maxima are chosen independently
Protocols ==
    [SingleBitTypes    : {{VarType.Index}},
     MaxReadBits       : 1..ProtoMaxRegs,
     MaxReadRegisters  : 1..ProtoMaxRegs,
     MaxWriteBits      : 1..ProtoMaxRegs,
     MaxWriteRegisters : 1..ProtoMaxRegs]

\* GenerateQueries has gathered its data: any protocol, any holes, and a
\* max_read_registers that is unset (0 or negative), below, at or above the
\* protocol's maxima
InitLimits ==
    /\ policy \in {"Minify", "NoDuplicates"}
    /\ operation \in {"Read", "Write"}
    /\ protocolInfo \in Protocols
    /\ deviceConfig \in [MaxBitHole : 0..MaxHoleCfg, MaxRegHole : 0..MaxHoleCfg,
                         MaxReadRegisters : (-1)..(ProtoMaxRegs + 1)]
    /\ deviceBlocks = {}
    /\ input = << >>
    /\ memoryBlockSets = << >>
    /\ result = << >>
    /\ pc = "start"
    /\ LimitsIdle
    /\ ReadOnly = FALSE /\ OnValue = << >> /\ Holders = "own"
    /\ VRegConstructed /\ PollIdle
    /\ CreateIdle
    /\ QuerySetIdle
    /\ FormatIdle

NextLimits == \E type \in MemoryBlockTypes : CallGetMaxHoleAndRegs(type.Index)

SpecLimits == InitLimits /\ [][NextLimits]_vars

\* the words of the raw values of the model: the ends of a byte and of a
\* word, and the values next to the sign bit of a byte and of a word
RawWords == {0, 1, 127, 128, 255, 32768, 65535}

\* a register of an integer format holding any raw value of 64 bits
InitFormat ==
    /\ Format \in IntegerFormats
    /\ rawValue \in [1..WordsIn64 -> RawWords]
    /\ textValue = << >>
    /\ masterValue = Zero64
    /\ formatPc = "start"
    /\ ReadOnly = FALSE /\ OnValue = << >> /\ Holders = "own"
    /\ VRegConstructed /\ PollIdle
    /\ CreateIdle
    /\ MergeIdle
    /\ QuerySetIdle
    /\ LimitsIdle

NextFormat == CallConvertSlaveValue \/ CallConvertMasterValue

SpecFormat == InitFormat /\ [][NextFormat]_vars

\* the input vectors of GenerateQuerySets
PollVectors ==
    UNION {[1..n -> PollIntervalChoices] : n \in 0..MaxPollRegs}

InitQuerySets ==
    /\ virtualRegisters \in PollVectors
    /\ querySetsByPollInterval = << >>
    /\ querySetsPc = "start"
    /\ ReadOnly = FALSE /\ OnValue = << >> /\ Holders = "own"
    /\ VRegConstructed /\ PollIdle
    /\ CreateIdle
    /\ MergeIdle
    /\ LimitsIdle
    /\ FormatIdle

NextQuerySets == \E op \in {"Read", "Write"} : CallGenerateQuerySets(op)

SpecQuerySets == InitQuerySets /\ [][NextQuerySets]_vars

\* registers are created one after the other, and a block may be asked once
\* more to associate with one of its registers
NextAssociate ==
    \/ \E config \in VRegConfigs : Create(config)
    \/ \E vreg \in 1..MaxVRegs : \E a \in LinkAddrs : AssociateAgain(vreg, a)

SpecAssociate == InitCreate /\ [][NextAssociate]_vars

\* a device after its set-up, with no register or one, and no cache yet
InitCache ==
    /\ MergeIdle
    /\ TypeReadOnly \in BOOLEAN
    /\ \E linkage \in {NoLinkage, InitExternalLinkageDevice(NoLinkage).linkage} :
          \/ /\ ExternalLinkage = [a \in LinkAddrs |-> linkage]
             /\ registers = << >>
             /\ lastCreate = NoCreate
          \/ \E config \in VRegConfigs :
                LET out == CreateOutcome(<< >>, [a \in LinkAddrs |-> linkage], config)
                IN /\ out.status = "ok"
                   /\ ExternalLinkage = out.linkages
                   /\ registers = out.registers
                   /\ lastCreate = [status |-> out.status, at |-> out.at,
                                    config |-> config, queries |-> out.queries]
    /\ Cache = [a \in LinkAddrs |-> -1]
    /\ lastBlockOp = NoBlockOp
    /\ ReadOnly = FALSE /\ OnValue = << >> /\ Holders = "own"
    /\ VRegConstructed /\ PollIdle
    /\ QuerySetIdle
    /\ LimitsIdle
    /\ FormatIdle

NextCache == \E a \in LinkAddrs : \E cache \in CacheBuffers : AssignCache(a, cache)

SpecCache == InitCache /\ [][NextCache]_vars

\* registers of at most a block's width are created, on a block boundary or
\* across one; blocks that need a cache are given a zeroed one, and the caches
\* of the blocks are taken, in any order
WiringConfigs == {config \in VRegConfigs : config.BitWidth <= BlockBits}
WiringAddrs == UNION {BlockAddrs(config) : config \in WiringConfigs}

NextWiring ==
    \/ \E config \in WiringConfigs : Create(config)
    \/ \E a \in WiringAddrs : WireCache(a, 0)
    \/ \E a \in WiringAddrs : GetCache(a)

SpecWiring == InitCreate /\ [][NextWiring]_vars

\* the configurations of a register that lies within one block
OneBlockConfigs ==
    {config \in VRegConfigs :
        ~config.ReadOnly /\ Cardinality(BlockAddrs(config)) = 1}

\* one writable register created on a device with blocks of a writable type;
\* the device has given a cache to every block that needs one, and reads have
\* filled it
InitPartialWrite ==
    /\ MergeIdle
    /\ TypeReadOnly = FALSE
    /\ \E config \in OneBlockConfigs :
          LET out == CreateOutcome(<< >>,
                        [a \in LinkAddrs |-> InitExternalLinkageDevice(NoLinkage).linkage],
                        config)
          IN /\ registers = out.registers
             /\ ExternalLinkage = out.linkages
             /\ lastCreate = [status |-> out.status, at |-> out.at, config |-> config,
                              queries |-> out.queries]
    /\ lastBlockOp = NoBlockOp
    /\ Cache \in [LinkAddrs -> CacheChoices \cup {-1}]
    /\ \A a \in LinkAddrs : (Cache[a] >= 0) <=> NeedsCaching(a)
    /\ ReadOnly = FALSE /\ OnValue = << >> /\ Holders \in HolderBuilds
    /\ VRegConstructed /\ PollIdle
    /\ QuerySetIdle
    /\ LimitsIdle
    /\ FormatIdle

NextPartialWrite ==
    \/ SetTextValueStoreDirty
    \/ SetTextValueDecode
    \/ SetTextValueTestSignal
    \/ FlushLoadDirty
    \/ FlushStoreDirty
    \/ FlushSetValue
    \/ AcceptWriteValue
    \/ FlushExecute

SpecPartialWrite == InitPartialWrite /\ [][NextPartialWrite]_vars

(***************************************************************************)
(* Properties of the query factory.                                        *)
(***************************************************************************)
\* the addresses of the device's blocks of a type inside [lo, hi]
DeviceAddrs(type, lo, hi) ==
    {b.Address : b \in {c \in deviceBlocks : c.Type = type /\ lo <= c.Address /\ c.Address <= hi}}

\* the largest gap between neighbouring addresses of a set of addresses
LargestGap(addrs) ==
    LET gaps == {y - x - 1 : <<x, y>> \in
                    {p \in addrs \X addrs :
                        p[1] < p[2] /\ ~\E z \in addrs : p[1] < z /\ z < p[2]}}
    IN IF gaps = {} THEN 0 ELSE CHOOSE g \in gaps : \A h \in gaps : h <= g

AddrsOf(blocks) == {b.Address : b \in blocks}
MinAddr(blocks) == CHOOSE x \in AddrsOf(blocks) : \A y \in AddrsOf(blocks) : x <= y
MaxAddrOf(blocks) == CHOOSE x \in AddrsOf(blocks) : \A y \in AddrsOf(blocks) : y <= x
Width(blocks) == MaxAddrOf(blocks) - MinAddr(blocks) + 1
TypeOf(blocks) == (CHOOSE b \in blocks : TRUE).Type
SizeOf(blocks) == (CHOOSE b \in blocks : TRUE).Size
OneTypeAndSize(blocks) == \A b, c \in blocks : b.Type = c.Type /\ b.Size = c.Size
\* the number a uint32_t below 2^31 stands for
U32Value(v) == v[1] + v[2] * WordRange
LimitsOf(blocks) ==
    [maxHole |-> U32Value(getMaxHoleAndRegs(TypeOf(blocks)).maxHole),
     maxRegs |-> U32Value(getMaxHoleAndRegs(TypeOf(blocks)).maxRegs)]

\* the gap of a block set measured over the device's blocks inside its hull
DeviceGap(blocks) ==
    LargestGap(DeviceAddrs(TypeOf(blocks), MinAddr(blocks), MaxAddrOf(blocks)))

Queries == {result[k] : k \in 1..Len(result)}
InputBlockSets == {input[k].first : k \in 1..Len(input)}

\* C1: under Minify every produced query spans at most max_regs addresses
\* and the largest gap between the device's blocks of its type inside
\* [first, last] is at most max_hole
C1_MinifyWithinLimits ==
    (pc = "done" /\ policy = "Minify") =>
        \A q \in Queries :
            /\ Width(q.Blocks) <= LimitsOf(q.Blocks).maxRegs
            /\ DeviceGap(q.Blocks) <= LimitsOf(q.Blocks).maxHole

\* a query that merging built from several entries, at the limit of max_regs
C1_Witness ==
    /\ pc = "done" /\ policy = "Minify"
    /\ \E q \in Queries :
          /\ Len(q.VirtualRegisters) >= 2
          /\ Width(q.Blocks) = LimitsOf(q.Blocks).maxRegs
          /\ DeviceGap(q.Blocks) = LimitsOf(q.Blocks).maxHole
          /\ DeviceGap(q.Blocks) > 0

\* two block sets that the merge condition of the specification accepts
Mergeable(a, b) ==
    /\ TypeOf(a) = TypeOf(b)
    /\ SizeOf(a) = SizeOf(b)
    /\ DeviceGap(a \cup b) <= LimitsOf(a).maxHole
    /\ Width(a \cup b) <= LimitsOf(a).maxRegs

\* C2: when Minify merging finishes no two surviving sets are mergeable
C2_NoMergeablePairLeft ==
    (pc = "done" /\ policy = "Minify") =>
        \A i, j \in 1..Len(result) :
            i # j => ~Mergeable(result[i].Blocks, result[j].Blocks)

\* the first set skipped the second and then grew by absorbing the third
C2_Witness ==
    /\ pc = "done" /\ policy = "Minify"
    /\ Len(result) = 2
    /\ result[1].VirtualRegisters = << 1, 3 >>
    /\ result[2].VirtualRegisters = << 2 >>
    /\ result[1].Type = result[2].Type
    /\ SizeOf(result[1].Blocks) = SizeOf(result[2].Blocks)
    /\ Cardinality(result[1].Blocks) > Cardinality(input[1].first)

\* C3 as stated: in every resulting block set the largest gap between
\* consecutive addresses of the set itself is at most max_hole, and the set
\* spans at most max_regs addresses
C3_OwnGapWithinMaxHole ==
    pc = "done" =>
        \A q \in Queries :
            /\ LargestGap(AddrsOf(q.Blocks)) <= LimitsOf(q.Blocks).maxHole
            /\ Width(q.Blocks) <= LimitsOf(q.Blocks).maxRegs

\* C3 amended: every resulting block set spans at most max_regs addresses,
\* and between two neighbouring addresses of the set that lie more than
\* max_hole apart the device holds other blocks of the type, none of the
\* gaps between the device's blocks there exceeding max_hole
C3_OwnGapFilledByDevice ==
    pc = "done" =>
        \A q \in Queries :
            /\ Width(q.Blocks) <= LimitsOf(q.Blocks).maxRegs
            /\ \A x, y \in AddrsOf(q.Blocks) :
                  (x < y /\ (~\E z \in AddrsOf(q.Blocks) : x < z /\ z < y)
                         /\ y - x - 1 > LimitsOf(q.Blocks).maxHole)
                  => /\ DeviceAddrs(TypeOf(q.Blocks), x + 1, y - 1) # {}
                     /\ LargestGap(DeviceAddrs(TypeOf(q.Blocks), x, y))
                           <= LimitsOf(q.Blocks).maxHole

\* a merged set whose own gap exceeds max_hole, the device filling the gap
C3_Witness ==
    /\ pc = "done"
    /\ \E q \in Queries :
          /\ Len(q.VirtualRegisters) >= 2
          /\ LargestGap(AddrsOf(q.Blocks)) > LimitsOf(q.Blocks).maxHole

\* the registers contributing to the queries
ContributingRegisters ==
    UNION {{q.VirtualRegisters[n] : n \in 1..Len(q.VirtualRegisters)} : q \in Queries}

\* C4: under NoDuplicates the result has one query per distinct block set of
\* the input, and the registers of the queries are the registers of the input
C4_NoDuplicatesCount ==
    (pc = "done" /\ policy = "NoDuplicates") =>
        /\ Len(result) = Cardinality(InputBlockSets)
        /\ ContributingRegisters = 1..Len(input)

\* duplicates that are not neighbours in the list were coalesced
C4_Witness ==
    /\ pc = "done" /\ policy = "NoDuplicates"
    /\ Len(input) = 3
    /\ input[1].first = input[3].first
    /\ input[1].first # input[2].first
    /\ Len(result) = 2

\* C5: under NoDuplicates the block set of every query is the block set of
\* every entry merged into it: no set receives a block it did not hold
C5_NoDuplicatesKeepsSets ==
    (pc = "done" /\ policy = "NoDuplicates") =>
        \A q \in Queries :
            /\ q.Blocks \in InputBlockSets
            /\ \A n \in 1..Len(q.VirtualRegisters) :
                  input[q.VirtualRegisters[n]].first = q.Blocks

\* entries were coalesced while an overlapping, different set stayed apart
C5_Witness ==
    /\ pc = "done" /\ policy = "NoDuplicates"
    /\ Len(result) < Len(input)
    /\ \E q, r \in Queries :
          q.Blocks # r.Blocks /\ q.Blocks \cap r.Blocks # {}

\* the places of the result where register k contributes
PlacesOf(k) ==
    {p \in (1..Len(result)) \X (1..Len(input)) :
        /\ p[2] <= Len(result[p[1]].VirtualRegisters)
        /\ result[p[1]].VirtualRegisters[p[2]] = k}

\* C6: every input entry ends up in exactly one query, which holds all of
\* the entry's blocks, and there is one query per surviving set
C6_NoSplitNoDrop ==
    pc = "done" =>
        /\ Len(result) = Len(memoryBlockSets)
        /\ \A k \in 1..Len(input) :
              /\ Cardinality(PlacesOf(k)) = 1
              /\ \A p \in PlacesOf(k) : input[k].first \subseteq result[p[1]].Blocks

\* some entries were merged and more than one set survived
C6_Witness ==
    /\ pc = "done"
    /\ Len(result) >= 2
    /\ Len(result) < Len(input)
    /\ \E q \in Queries : \E n \in 1..Len(q.VirtualRegisters) :
          input[q.VirtualRegisters[n]].first # q.Blocks

\* an entry that the pre-check must reject
Violates(blocks) ==
    \/ ~OneTypeAndSize(blocks)
    \/ DeviceGap(blocks) > LimitsOf(blocks).maxHole
    \/ Width(blocks) > LimitsOf(blocks).maxRegs

\* C7: an input in which some set exceeds max_hole or max_regs or mixes
\* types or sizes is rejected with a configuration error before any merging:
\* no set is merged and no query is produced
C7_PreCheckRejects ==
    (pc # "start" /\ \E k \in 1..Len(input) : Violates(input[k].first)) =>
        /\ pc = "error"
        /\ memoryBlockSets = input
        /\ result = << >>

\* a list rejected for its second entry, whose first entry is acceptable
C7_Witness ==
    /\ pc = "error"
    /\ Len(input) = 2
    /\ ~Violates(input[1].first)
    /\ ~OneTypeAndSize(input[2].first)
    /\ TypeOf(input[1].first) = TypeOf(input[2].first)

(***************************************************************************)
(* Properties of the write path.                                           *)
(***************************************************************************)
\* the value a text handed to SetTextValue decodes to (-1: it does not)
Decoded(str) == ConvertMasterValue(MappedText(str))

\* C8: no requested write is lost: when both threads are at rest and dirty
\* is false, the value of the latest set_text_value has been handed to the
\* device by a flush
C8_NoWriteLost ==
    (producerPc = "idle" /\ busPc = "idle" /\ ~Dirty
        /\ dirtyBy # << >> /\ Decoded(dirtyBy) >= 0)
    => executed = Decoded(dirtyBy)

\* C9: at every step in which the bus thread observes dirty = true (the load
\* in Flush), value_to_write already holds the value decoded by the
\* set_text_value call that set dirty
C9_DirtyPublishesValue ==
    [][ (busPc = "idle" /\ busPc' = "storeDirty" /\ Decoded(dirtyBy) >= 0)
        => ValueToWrite = Decoded(dirtyBy) ]_vars

\* C10: flush on a dirty register clears dirty, loads the write query with
\* value_to_write, executes it once, and sets the WriteError bit iff the
\* status is not Ok (the producer being at rest while the query is written)
C10_FlushSendsValueToWrite ==
    [][ /\ (busPc = "storeDirty" /\ busPc' = "write") => ~Dirty'
        /\ (busPc = "write" /\ busPc' = "execute" /\ producerPc = "idle") =>
              WriteQuery'.Value = GetValueToWriteContext
        /\ (busPc = "execute" /\ busPc' = "idle") =>
              /\ executed' = WriteQuery.Value
              /\ flushExecutes' = 1
              /\ ("WriteError" \in ErrorState') <=> (WriteQuery'.Status # "Ok")
      ]_vars

(***************************************************************************)
(* Properties of the read side.                                            *)
(***************************************************************************)
\* a delivered value that the register takes as a normal value
SuccessfulRead(v) == AcceptDeviceValue(v) /\ NeedToPoll /\ ~IsErrorValue(v)

\* a failed query, or a delivered value equal to the error value
FailedRead ==
    \/ UpdateReadError
    \/ \E v \in RawValues : AcceptDeviceValue(v) /\ NeedToPoll /\ IsErrorValue(v)

ReadStep == FailedRead \/ \E v \in RawValues : SuccessfulRead(v)

\* C11: a failed read sets ReadError, only a successful read clears it, and
\* a read flags Changed(Error) iff it changes the error state
C11_ErrorLatching ==
    [][ /\ FailedRead => "ReadError" \in ErrorState'
        /\ (\E v \in RawValues : SuccessfulRead(v)) => "ReadError" \notin ErrorState'
        /\ ~ReadStep => (("ReadError" \in ErrorState') <=> ("ReadError" \in ErrorState))
        /\ ReadStep =>
              (ChangedPublishData' \ {"Value"}) =
                 (IF ErrorState' # ErrorState
                  THEN ChangedPublishData \cup {"Error"}
                  ELSE ChangedPublishData) \ {"Value"}
      ]_vars

\* a second failed read in a row, after the publisher reset the flag, has left
\* the error state set and the flag clear
C11_Witness ==
    /\ pollOp.op = "UpdateReadError"
    /\ "ReadError" \in ErrorState
    /\ "Error" \notin ChangedPublishData

\* C12: a poll taken as a normal value flags Changed(Value) iff it is the
\* first such poll of the register or its value differs from current_value
C12_ValueChangePublication ==
    [][ \A v \in RawValues :
          SuccessfulRead(v) =>
             (("Value" \in ChangedPublishData') <=>
                 ("Value" \in ChangedPublishData \/ ~valueAccepted \/ v # CurrentValue))
      ]_vars

\* C13: a delivered value equal to the configured error value sets ReadError
\* and leaves current_value and Changed(Value) alone; without a configured
\* error value the same raw value becomes the current value
C13_ErrorValue ==
    [][ \A v \in RawValues :
          (AcceptDeviceValue(v) /\ NeedToPoll /\ v = ErrorValue) =>
             IF HasErrorValue
             THEN /\ "ReadError" \in ErrorState'
                  /\ CurrentValue' = CurrentValue
                  /\ ("Value" \in ChangedPublishData') <=> ("Value" \in ChangedPublishData)
             ELSE /\ "ReadError" \notin ErrorState'
                  /\ CurrentValue' = v
                  /\ (v # CurrentValue => "Value" \in ChangedPublishData')
      ]_vars

\* the error value has been delivered to a polled register that has one
C13_Witness ==
    /\ pollOp = [op |-> "AcceptDeviceValue", raw |-> ErrorValue, polled |-> TRUE]
    /\ HasErrorValue
    /\ "ReadError" \in ErrorState
    /\ CurrentValue # ErrorValue

(***************************************************************************)
(* Properties of memory blocks and of register creation.                   *)
(***************************************************************************)
\* the register's bits fall into block a / fill block a
Touches(config, a) ==
    a * BlockBits < EndBit(config) /\ (a + 1) * BlockBits > FirstBit(config)
CoversFully(config, a) ==
    FirstBit(config) <= a * BlockBits /\ (a + 1) * BlockBits <= EndBit(config)

\* the registers created with bits in block a
RegistersOn(a) == {id \in 1..Len(registers) : Touches(registers[id].Config, a)}

\* C14 (as stated): a block needs caching iff its type is writable and some
\* associated register, read-only or writable, does not cover it fully; a
\* block with a device linkage or none never needs caching
C14_CacheNecessity ==
    CatalogueAlive =>
       \A a \in LinkAddrs :
          /\ NeedsCaching(a) <=>
                (~TypeReadOnly /\ \E id \in RegistersOn(a) :
                                     ~CoversFully(registers[id].Config, a))
          /\ ExternalLinkage[a].kind \in {"null", "device"} => ~NeedsCaching(a)

\* C14 (amended): a block needs caching iff its type is writable and some
\* associated writable register does not cover it fully; a block with a
\* device linkage or none never needs caching
C14_CacheNecessityOfWriters ==
    CatalogueAlive =>
       \A a \in LinkAddrs :
          /\ NeedsCaching(a) <=>
                (~TypeReadOnly /\ \E id \in RegistersOn(a) :
                                     /\ ~registers[id].Config.ReadOnly
                                     /\ ~CoversFully(registers[id].Config, a))
          /\ ExternalLinkage[a].kind \in {"null", "device"} => ~NeedsCaching(a)

\* a block shared by a read-only and a writable register, both covering it in
\* part, needs caching
C14_Witness ==
    /\ CatalogueAlive
    /\ \E a \in LinkAddrs :
          /\ NeedsCaching(a)
          /\ \E r, w \in RegistersOn(a) :
                /\ registers[r].Config.ReadOnly /\ ~CoversFully(registers[r].Config, a)
                /\ ~registers[w].Config.ReadOnly

\* C16: a block's linkage never changes its variant, and a register linkage
\* never loses a register
C16_LinkageNeverSwitches ==
    [][ \A a \in LinkAddrs :
          /\ ExternalLinkage[a].kind = "device" => ExternalLinkage'[a].kind = "device"
          /\ ExternalLinkage[a].kind = "vreg" =>
                /\ ExternalLinkage'[a].kind = "vreg"
                /\ ExternalLinkage[a].VirtualRegisters
                      \subseteq ExternalLinkage'[a].VirtualRegisters
      ]_vars

\* a step of Create: the only operation that records its outcome
Created == lastCreate' # lastCreate

\* the bit ranges of two configurations intersect inside block a
IntersectIn(c1, c2, a) ==
    /\ Touches(c1, a) /\ Touches(c2, a)
    /\ Max(FirstBit(c1), FirstBit(c2)) < Min(EndBit(c1), EndBit(c2))

\* a register linked to block a clashes with the configuration
Clash(config, a) ==
    \E id \in ExternalLinkage[a].VirtualRegisters :
        IntersectIn(registers[id].Config, config, a)

\* C17: creating a register whose bits intersect, inside a block, those of a
\* register linked to the block fails as overlapping at such a block and
\* leaves that block's register set unchanged; no block ever holds two
\* registers with intersecting bit ranges
C17_NoOverlappingRegisters ==
    [][ LET config == lastCreate'.config IN
          Created =>
             /\ (\E a \in BlockAddrs(config) : Clash(config, a)) =>
                   /\ lastCreate'.status = "overlapping"
                   /\ Clash(config, lastCreate'.at)
                   /\ ExternalLinkage'[lastCreate'.at] = ExternalLinkage[lastCreate'.at]
                   /\ registers' = registers
             /\ lastCreate'.status = "overlapping" =>
                   \E a \in BlockAddrs(config) : Clash(config, a)
             /\ lastCreate'.status = "ok" =>
                   \A a \in LinkAddrs :
                      \A i, j \in ExternalLinkage'[a].VirtualRegisters :
                         i # j => ~IntersectIn(registers'[i].Config,
                                               registers'[j].Config, a)
      ]_vars

\* a register was refused as overlapping a register created before
C17_Witness ==
    /\ lastCreate.status = "overlapping"
    /\ Len(registers) >= 1
    /\ Clash(lastCreate.config, lastCreate.at)

\* the sum of BitCount over a register's blocks
RECURSIVE SumBitCount(_, _)
SumBitCount(MemoryBlocks, addrs) ==
    IF addrs = {} THEN 0
    ELSE LET a == CHOOSE x \in addrs : TRUE
         IN BitCount(MemoryBlocks[a]) + SumBitCount(MemoryBlocks, addrs \ {a})

\* the blocks a configuration reaches from its first bit to its last
SpannedBlocks(config) ==
    ((config.Address * BlockBits + config.BitOffset + config.BitWidth - 1)
        \div BlockBits)
    - ((config.Address * BlockBits + config.BitOffset) \div BlockBits) + 1

\* the register's blocks fit one write of the device's protocol
FitsOneWrite(config) == SpannedBlocks(config) <= protocolInfo.MaxWriteRegisters

\* what holds of every register that exists: it is at most 64 bits wide, its
\* blocks are blocks of its type, and it holds a write query, the only one of
\* its query set and a write of exactly its own blocks, iff it is writable
WidthClosed(regs) ==
    \A i \in 1..Len(regs) :
       LET r == regs[i] IN
       /\ SumBitCount(r.MemoryBlocks, DOMAIN r.MemoryBlocks) = r.Config.BitWidth
       /\ r.Config.BitWidth <= MaxRegisterWidth
       /\ Cardinality(DOMAIN r.MemoryBlocks) = SpannedBlocks(r.Config)
       /\ \A a \in DOMAIN r.MemoryBlocks :
             \E mb \in deviceBlocks : mb.Address = a /\ mb.Type = r.Type
       /\ r.Config.ReadOnly => r.WriteQuery = << >>
       /\ ~r.Config.ReadOnly =>
             /\ Len(r.WriteQuery) = 1
             /\ r.WriteQuery[1].Operation = "Write"
             /\ r.WriteQuery[1].VirtualRegisters = << i >>
             /\ r.WriteQuery[1].Type = r.Type
             /\ {mb.Address : mb \in r.WriteQuery[1].Blocks} = DOMAIN r.MemoryBlocks
             /\ \A mb \in r.WriteQuery[1].Blocks : mb.Type = r.Type

\* C18 as stated: Create fails when the register is wider than 64 bits and,
\* unless it overlaps another register, succeeds otherwise; every register
\* that exists is at most 64 bits wide, spread over blocks of its type, and
\* holds one write query iff it is writable
C18_SucceedsOtherwise ==
    [][ LET config == lastCreate'.config IN
          Created =>
             /\ config.BitWidth > MaxRegisterWidth =>
                   /\ lastCreate'.status \in {"width", "overlapping"}
                   /\ registers' = registers
             /\ (config.BitWidth <= MaxRegisterWidth
                    /\ lastCreate'.status # "overlapping") =>
                   /\ lastCreate'.status = "ok"
                   /\ Len(registers') = Len(registers) + 1
                   /\ registers'[Len(registers')].Config = config
             /\ WidthClosed(registers')
      ]_vars

\* C18: Create fails when the register is wider than 64 bits, when it
\* overlaps a register created before, or when it is writable and its blocks
\* are more than one write of the protocol may hold, and succeeds otherwise;
\* a writable register that is created had a query set of exactly one query;
\* every register that exists is at most 64 bits wide, spread over blocks of
\* its type, and holds that write query iff it is writable
C18_WidthClosure ==
    [][ LET config == lastCreate'.config IN
          Created =>
             /\ config.BitWidth > MaxRegisterWidth =>
                   lastCreate'.status \in {"width", "overlapping"}
             /\ lastCreate'.status = "width" => config.BitWidth > MaxRegisterWidth
             /\ lastCreate'.status = "max mb count exceeded" <=>
                   /\ config.BitWidth <= MaxRegisterWidth
                   /\ lastCreate'.status # "overlapping"
                   /\ ~config.ReadOnly
                   /\ ~FitsOneWrite(config)
             /\ lastCreate'.status \in
                   {"ok", "width", "overlapping", "max mb count exceeded"}
             /\ lastCreate'.status # "ok" => registers' = registers
             /\ lastCreate'.status = "ok" =>
                   /\ registers' = Append(registers, registers'[Len(registers')])
                   /\ registers'[Len(registers')].Config = config
                   /\ lastCreate'.queries = IF config.ReadOnly THEN 0 ELSE 1
             /\ WidthClosed(registers')
      ]_vars

\* a writable register of at most 64 bits was refused because its blocks are
\* more than one write may hold, after a writable register that fits was
\* created with its write query
C18_Witness ==
    /\ lastCreate.status = "max mb count exceeded"
    /\ lastCreate.config.BitWidth <= MaxRegisterWidth
    /\ ~lastCreate.config.ReadOnly
    /\ Len(registers) = 1
    /\ ~registers[1].Config.ReadOnly
    /\ Len(registers[1].WriteQuery) = 1

\* C15: when Flush writes a register that covers bits [i, j) of a block, the
\* outgoing image of the block has the register's value_to_write in bits
\* [i, j) and the block's cache in every other bit, and a block covered only
\* in part has a cache
C15_PartialWritePreservation ==
    [][ (busPc = "write" /\ busPc' = "execute") =>
          \A a \in DOMAIN registers[1].MemoryBlocks :
             LET bindInfo == registers[1].MemoryBlocks[a]
                 image == OutgoingImage(a, 1, WriteQuery'.Value)
             IN /\ BitsOf(image, bindInfo.BitStart, bindInfo.BitEnd) = ValueToWrite
                /\ bindInfo # [BitStart |-> 0, BitEnd |-> BlockBits] =>
                      /\ Cache[a] >= 0
                      /\ BitsOf(image, 0, bindInfo.BitStart)
                            = BitsOf(Cache[a], 0, bindInfo.BitStart)
                      /\ BitsOf(image, bindInfo.BitEnd, BlockBits)
                            = BitsOf(Cache[a], bindInfo.BitEnd, BlockBits)
      ]_vars

\* the first position of an interval in the input vector
FirstSeen(pollInterval) ==
    CHOOSE i \in 1..Len(virtualRegisters) :
        /\ virtualRegisters[i] = pollInterval
        /\ \A j \in 1..(i - 1) : virtualRegisters[j] # pollInterval

\* the registers of the input vector with an interval, in input order
RegistersWith(pollInterval) ==
    SelectSeq([i \in 1..Len(virtualRegisters) |-> i],
              LAMBDA i : virtualRegisters[i] = pollInterval)

\* C19: GenerateQuerySets returns exactly one pair per distinct poll interval
\* of the input, the pairs ordered by the first appearance of their interval
\* in the input, and the query set of a pair is built from exactly the
\* registers with that interval, in input order
C19_QuerySetsByPollInterval ==
    querySetsPc = "done" =>
        LET pairs == querySetsByPollInterval
        IN /\ {pairs[k].pollInterval : k \in 1..Len(pairs)}
                 = {virtualRegisters[i] : i \in 1..Len(virtualRegisters)}
           /\ \A k, l \in 1..Len(pairs) :
                 k < l => FirstSeen(pairs[k].pollInterval) < FirstSeen(pairs[l].pollInterval)
           /\ \A k \in 1..Len(pairs) :
                 pairs[k].querySet.registers = RegistersWith(pairs[k].pollInterval)

\* two intervals, first seen in descending order, the first with two
\* registers that are not neighbours in the input
C19_Witness ==
    /\ querySetsPc = "done"
    /\ Len(querySetsByPollInterval) = 2
    /\ querySetsByPollInterval[1].pollInterval > querySetsByPollInterval[2].pollInterval
    /\ querySetsByPollInterval[1].querySet.registers = << 1, 3 >>

\* the read limit of the register type
ReadLimit ==
    IF deviceConfig.MaxReadRegisters > 0
    THEN Min(deviceConfig.MaxReadRegisters, protocolInfo.MaxReadRegisters)
    ELSE protocolInfo.MaxReadRegisters

\* the run handed to GenerateQueries: its first address and its length
RunStart == MinAddr(deviceBlocks)
RunLength == Len(input)

\* C21: a run of N single-block registers at consecutive addresses a..a+N-1,
\* fed in ascending order with max_hole 0 and read limit M, yields
\* ceil(N / M) queries, the k-th covering a+kM .. min(a+(k+1)M, a+N)-1
C21_CountCap ==
    pc = "done" =>
        /\ Len(result) = (RunLength + ReadLimit - 1) \div ReadLimit
        /\ \A k \in 0..(Len(result) - 1) :
              /\ AddrsOf(result[k + 1].Blocks)
                    = (RunStart + k * ReadLimit)
                      ..(Min(RunStart + (k + 1) * ReadLimit, RunStart + RunLength) - 1)
              /\ result[k + 1].Start = RunStart + k * ReadLimit
              /\ U32Value(result[k + 1].Count)
                    = Min(ReadLimit, RunLength - k * ReadLimit)

\* a run cut into full queries and a shorter last one
C21_Witness ==
    /\ pc = "done"
    /\ Len(result) >= 2
    /\ U32Value(result[1].Count) = ReadLimit
    /\ ReadLimit >= 2
    /\ U32Value(result[Len(result)].Count) < ReadLimit

(***************************************************************************)
(* Properties of calls that must leave the register alone.                 *)
(***************************************************************************)
\* C22: set_text_value on a read-only register is a no-op: dirty stays
\* false, no flush signal is raised, and current_value, error_state and the
\* changed flags are unchanged (nor are value_to_write and the write query)
C22_ReadOnlyNoOp ==
    [][ (ReadOnly /\ value' # value) =>
          /\ ~Dirty /\ ~Dirty'
          /\ FlushNeeded' = FlushNeeded
          /\ CurrentValue' = CurrentValue
          /\ ErrorState' = ErrorState
          /\ ChangedPublishData' = ChangedPublishData
          /\ ValueToWrite' = ValueToWrite
          /\ WriteQuery' = WriteQuery
      ]_vars

\* a read-only register with a flush semaphore after a call of set_text_value
C22_Witness ==
    /\ ReadOnly
    /\ value # << >>
    /\ FlushNeeded = "idle"
    /\ ~Dirty

\* a step of a set_text_value call
SetTextValueStep == producerPc' # producerPc

\* C23: the core never retries a write.  A flush whose query fails sets
\* WriteError and does not set dirty again; dirty is set by set_text_value
\* only; and while the register is not dirty no flush goes on to write: the
\* bus thread does not go on to clear dirty, and no query is loaded or executed
C23_NoRetry ==
    [][ /\ (busPc = "execute" /\ busPc' = "idle" /\ WriteQuery'.Status # "Ok") =>
              /\ "WriteError" \in ErrorState'
              /\ Dirty' = Dirty
        /\ (~Dirty /\ Dirty') => SetTextValueStep
        /\ (busPc = "idle" /\ ~Dirty) =>
              /\ busPc' # "storeDirty"
              /\ WriteQuery' = WriteQuery
              /\ executed' = executed
              /\ flushExecutes' \in {0, flushExecutes}
      ]_vars

\* a write has failed and the flush after it has executed nothing
C23_Witness ==
    /\ WriteQuery.Status \in {"DeviceError", "UnknownError"}
    /\ "WriteError" \in ErrorState
    /\ ~Dirty
    /\ executed >= 0
    /\ flushExecutes = 0

\* a value is delivered to the register
ValueDelivered == pollOp' # pollOp /\ pollOp'.op = "AcceptDeviceValue"

\* C29: while the register is dirty, or its poll flag is off,
\* accept_device_value is a no-op: current_value, value_is_read,
\* value_was_accepted, error_state and the changed flags are unchanged
C29_NoPollWhileDirty ==
    [][ (ValueDelivered /\ (Dirty \/ ~Poll)) =>
          /\ CurrentValue' = CurrentValue
          /\ ValueIsRead' = ValueIsRead
          /\ ValueWasAccepted' = ValueWasAccepted
          /\ ErrorState' = ErrorState
          /\ ChangedPublishData' = ChangedPublishData
      ]_vars

\* a polled register with a pending write to which the device has delivered
\* a value other than its current one
C29_Witness ==
    /\ Poll /\ Dirty
    /\ pollOp.op = "AcceptDeviceValue"
    /\ pollOp.raw # CurrentValue
    /\ ~pollOp.polled
    /\ ~ValueIsRead

\* C30: a set_text_value call whose text fails to decode leaves the register
\* unchanged: dirty keeps its prior value, value_to_write is unchanged, no
\* flush signal is raised and no error flag is set
C30_FailedDecodeNoEffect ==
    [][ (SetTextValueStep /\ Decoded(value') < 0) =>
          /\ Dirty' = Dirty
          /\ ValueToWrite' = ValueToWrite
          /\ FlushNeeded' = FlushNeeded
          /\ ErrorState' = ErrorState
      ]_vars

(***************************************************************************)
(* Properties of the per-type limits.                                      *)
(***************************************************************************)
SingleBit(type) == type \in protocolInfo.SingleBitTypes

\* C27: for Read, max_regs is min(device.max_read_registers, protocol
\* maximum) when the device value is > 0 and the protocol maximum otherwise;
\* for Write, max_regs is the protocol's write maximum whatever
\* max_read_registers is; single-bit types use max_bit_hole and the bit
\* maxima, other types max_reg_hole and the register maxima; under
\* NoDuplicates max_hole is 0 for every type
C27_PerTypeLimits ==
    typeInfo.type # -1 =>
        LET bit == SingleBit(typeInfo.type)
            readMaximum == IF bit THEN protocolInfo.MaxReadBits
                           ELSE protocolInfo.MaxReadRegisters
            writeMaximum == IF bit THEN protocolInfo.MaxWriteBits
                            ELSE protocolInfo.MaxWriteRegisters
        IN /\ (operation = "Read" /\ deviceConfig.MaxReadRegisters > 0) =>
                 /\ U32Value(typeInfo.maxRegs) <= deviceConfig.MaxReadRegisters
                 /\ U32Value(typeInfo.maxRegs) <= readMaximum
                 /\ U32Value(typeInfo.maxRegs) \in {deviceConfig.MaxReadRegisters, readMaximum}
           /\ (operation = "Read" /\ deviceConfig.MaxReadRegisters <= 0) =>
                 U32Value(typeInfo.maxRegs) = readMaximum
           /\ operation = "Write" => U32Value(typeInfo.maxRegs) = writeMaximum
           /\ policy = "NoDuplicates" => U32Value(typeInfo.maxHole) = 0
           /\ (policy = "Minify" /\ bit) => U32Value(typeInfo.maxHole) = deviceConfig.MaxBitHole
           /\ (policy = "Minify" /\ ~bit) => U32Value(typeInfo.maxHole) = deviceConfig.MaxRegHole

\* the limits of a write of the single-bit type on a device whose
\* max_read_registers is below the protocol's write maximum
C27_Witness ==
    /\ typeInfo.type = VarType.Index
    /\ operation = "Write"
    /\ deviceConfig.MaxReadRegisters > 0
    /\ deviceConfig.MaxReadRegisters < protocolInfo.MaxWriteBits
    /\ protocolInfo.MaxWriteBits # protocolInfo.MaxWriteRegisters
    /\ protocolInfo.MaxWriteBits # protocolInfo.MaxReadBits
    /\ U32Value(typeInfo.maxRegs) = protocolInfo.MaxWriteBits

(***************************************************************************)
(* Properties of the calls made on a block after its set-up.               *)
(***************************************************************************)
\* C24: associating a block a second time with a register it is associated
\* with succeeds without error and leaves the block's set of registers as it
\* was after the first call
C24_AssociateIdempotent ==
    lastBlockOp.op = "AssociateWith" =>
        /\ ~lastBlockOp.threw
        /\ lastBlockOp.vreg \in ExternalLinkage[lastBlockOp.at].VirtualRegisters

\* a cache is assigned to a block
CacheAssigned == lastBlockOp' # lastBlockOp /\ lastBlockOp'.op = "AssignCache"

\* C25: assign_cache on a block that has a cache already, or whose
\* needs_caching is false, is rejected with a configuration error and leaves
\* the block's cache unchanged
C25_CacheAssignedOnce ==
    [][ LET a == lastBlockOp'.at IN
          (CacheAssigned /\ (Cache[a] >= 0 \/ ~NeedsCaching(a))) =>
              (lastBlockOp'.threw /\ Cache'[a] = Cache[a])
      ]_vars

(***************************************************************************)
(* Properties of the value conversion.                                     *)
(***************************************************************************)
\* the raw value fits the width of the format
Representable == rawValue = AndMask(rawValue, FormatWidth(Format))

\* C26: for every integer format and every raw value representable in the
\* format's width, from_text(to_text(raw)) = raw, and the text of a signed
\* format is negative exactly when the sign bit of the format's own width
\* is set
C26_IntegerRoundTrip ==
    (formatPc \in {"done", "error"} /\ Representable) =>
        /\ formatPc = "done"
        /\ masterValue = rawValue
        /\ Format \in SignedFormats =>
              (textValue[1] = "-" <=> BitSet(rawValue, FormatWidth(Format) - 1))
        /\ Format \in UnsignedFormats => textValue[1] # "-"

\* a 24-bit value with bit 23 set has made the round trip as S24
C26_Witness ==
    /\ formatPc = "done"
    /\ Format = "S24"
    /\ Representable
    /\ BitSet(rawValue, 23)
    /\ textValue[1] = "-"
    /\ masterValue = rawValue

\* C28: the text of a format narrower than 64 bits depends on the low bits
\* of its width only: the raw value and the raw value masked to the width
\* give the same text
C28_TextOfLowBits ==
    (formatPc = "text" /\ FormatWidth(Format) < WordsIn64 * WordBits) =>
        textValue = ConvertSlaveValueOf(Format, AndMask(rawValue, FormatWidth(Format)))

(***************************************************************************)
(* Properties of the error flags under polls and flushes.                  *)
(***************************************************************************)
\* the read error is updated: a delivered value is accepted, or a read query
\* of the register has failed
ReadErrorUpdated ==
    /\ pollOp' # pollOp
    /\ \/ pollOp'.op = "UpdateReadError"
       \/ pollOp'.op = "AcceptDeviceValue" /\ pollOp'.polled

\* the outcome of that poll is an error
ReadOutcomeIsError ==
    \/ pollOp'.op = "UpdateReadError"
    \/ HasErrorValue /\ ErrorValue = pollOp'.raw

\* the write error is updated: the query of a flush has been executed
WriteErrorUpdated == busPc = "execute" /\ busPc' = "idle"

\* C31: updating the read error changes only the ReadError bit, which
\* becomes the outcome of the poll; updating the write error changes only the
\* WriteError bit, which becomes the outcome of the flush, or is cleared
\* when the device reports the written value accepted; no other step changes
\* the error state; and after the first update the state is never
\* UnknownErrorState again
C31_ErrorBitsIndependent ==
    [][ /\ ReadErrorUpdated =>
              /\ ErrorState' \subseteq {"ReadError", "WriteError"}
              /\ "ReadError" \in ErrorState' <=> ReadOutcomeIsError
              /\ "WriteError" \in ErrorState' <=> "WriteError" \in ErrorState
        /\ WriteErrorUpdated =>
              /\ ErrorState' \subseteq {"ReadError", "WriteError"}
              /\ "WriteError" \in ErrorState' <=> WriteQuery'.Status # "Ok"
              /\ "ReadError" \in ErrorState' <=> "ReadError" \in ErrorState
        /\ AcceptWriteValue =>
              /\ ErrorState' \subseteq {"ReadError"}
              /\ "ReadError" \in ErrorState' <=> "ReadError" \in ErrorState
        /\ ~(ReadErrorUpdated \/ WriteErrorUpdated \/ AcceptWriteValue) =>
              ErrorState' = ErrorState
        /\ ErrorState # UnknownErrorState => ErrorState' # UnknownErrorState
      ]_vars

\* a read error has outlived a successful flush, and the register has been
\* polled and written
C31_Witness ==
    /\ ErrorState = {"ReadError"}
    /\ ValueWasAccepted
    /\ executed >= 0
    /\ WriteQuery.Status = "Ok"
    /\ flushExecutes = 1

(***************************************************************************)
(* Properties of the caches under wiring.                                  *)
(***************************************************************************)
\* the block of the last call has its cache if it needs one
CacheWired == NeedsCaching(lastBlockOp.at) => Cache[lastBlockOp.at] >= 0

\* C32: while the catalogue is being built without a configuration error,
\* and given that a block is assigned its cache once, when needs_caching is
\* true, the assertion of get_cache never fails: at every get_cache call the
\* block has a cache buffer iff needs_caching is true
C32_GetCacheAssertion ==
    (CatalogueAlive /\ lastBlockOp.op = "GetCache" /\ CacheWired) =>
        (Cache[lastBlockOp.at] >= 0 <=> NeedsCaching(lastBlockOp.at))

\* the cache is taken of a block shared by a read-only register and a
\* writable one, neither covering it
C32_Witness ==
    /\ CatalogueAlive
    /\ lastBlockOp.op = "GetCache"
    /\ Cache[lastBlockOp.at] >= 0
    /\ ExternalLinkage[lastBlockOp.at].VirtualRegisters = {1, 2}
    /\ registers[1].Config.ReadOnly /\ ~registers[2].Config.ReadOnly

(***************************************************************************)
(* Properties of the equality of registers.                                *)
(***************************************************************************)
\* the bits of the type's bit space that a register occupies
BitRange(vreg) == FirstBit(vreg.Config)..(EndBit(vreg.Config) - 1)

\* C33: two registers of the same device compare equal only if they have the
\* same address, bit offset and width, and two registers that occupy
\* disjoint bit ranges never have the same bit position
C33_EqualitySound ==
    \A i, j \in 1..Len(registers) :
        /\ RegisterEquals(registers, i, j) =>
              /\ registers[i].Config.Address = registers[j].Config.Address
              /\ registers[i].Config.BitOffset = registers[j].Config.BitOffset
              /\ registers[i].Config.BitWidth = registers[j].Config.BitWidth
        /\ BitRange(registers[i]) \cap BitRange(registers[j]) = {} =>
              GetBitPosition(registers[i]) # GetBitPosition(registers[j])

(***************************************************************************)
(* Properties of the publication of the first value.                       *)
(***************************************************************************)
\* the first delivered value that the register takes as a normal value
FirstValueStored == ~valueAccepted /\ valueAccepted'

\* C34: for a polled register that is not dirty, once a value other than the
\* configured error value has been delivered, Changed(Value) has been
\* flagged: the step that stores the first value flags it, whatever polls
\* came before (no earlier step can have flagged it)
C34_FirstValuePublished ==
    [][ /\ FirstValueStored => "Value" \in ChangedPublishData'
        /\ (~valueAccepted /\ ~valueAccepted') =>
              ("Value" \in ChangedPublishData' => "Value" \in ChangedPublishData)
      ]_vars

====
